---- MODULE Spec2Model ----
\* A model of go-aliaser: the import registry (importer.Importer), its
\* read/write lock, and the symbol table of the aliasing session (Aliaser).
EXTENDS Integers, Sequences, FiniteSets, TLC

VARIABLES
    imp,         \* the *importer.Importer: [imports, toAlias, aliasedImports]
    ret,         \* the last completed call and what it returned
    hist,        \* history of the registry calls (what earlier calls returned)
    mu,          \* Importer.mu, the sync.RWMutex of the registry
    pc,          \* where each goroutine is in its registry call
    call,        \* the registry call each goroutine is making
    constants,   \* Aliaser.constants
    variables,   \* Aliaser.variables
    functions,   \* Aliaser.functions
    types,       \* Aliaser.types
    names,       \* Aliaser.names, the index from a name to the kind of its object
    onDuplicate, \* Aliaser.Config.onDuplicate
    conf,        \* the Config the caller of New holds
    decl,        \* the type of the declaration a symbol is made of
    tsig,        \* Func.tsig, the Signature of a function symbol
    amu,         \* Aliaser.mu, the sync.RWMutex of the session
    fs,          \* the file GenerateFile writes and the state of its call
    walk         \* the type graph of a declaration and the walker's progress

vars == <<imp, ret, hist, mu, pc, call,
          constants, variables, functions, types, names, onDuplicate, conf,
          decl, tsig, amu, fs, walk>>

\* the variables of the registry and of its callers
regVars == <<imp, ret, hist>>
lockVars == <<mu, pc, call>>
tabVars ==
    <<constants, variables, functions, types, names, onDuplicate, conf, decl,
      tsig, amu, fs, walk>>

\* the session lock, the output file and the walker of a type graph
extVars == <<amu, fs, walk>>

-----------------------------------------------------------------------------
\* Bounds and input universes

\* number of distinct package paths the callers may register
NumPaths == 3

\* number of goroutines calling the registry concurrently
NumProcs == 2

\* number of objects one AddConstants/AddVariables/AddFunctions/AddTypes call
\* is given at most
MaxBatch == 1

\* number of type constructors nested in the type of a declaration
MaxDepth == 2

\* number of bytes the output file holds at most before GenerateFile is called
MaxFileLen == 2

\* number of calls of importType that are waiting to be made at most
MaxStack == 6

\* A package path is a string; it is kept as its sequence of bytes so that
\* slices.Sort's order (bytewise lexicographic) is computed, not assumed.
\* 1 -> "1", 2 -> "11", 3 -> "2", 4 -> "21", 5 -> "3", ...
PathOf(i) == IF i % 2 = 1 THEN <<(i + 1) \div 2>> ELSE <<i \div 2, 1>>

Paths == {PathOf(i) : i \in 1..NumPaths}

\* package names; "fake_2" is the name a suffixed alias of "fake" also has
PkgNames == {"fake", "fake_2"}

\* types.NewPackage(path, name)
NewPackage(path, name) == [path |-> path, name |-> name]

\* the nil *types.Package
NilPkg == [path |-> <<>>, name |-> ""]

Packages == {NewPackage(p, n) : p \in Paths, n \in PkgNames}

\* a Go map with no entry (a nil map reads the same as an empty one)
EmptyMap == [k \in {} |-> ""]

\* m[key] = value on a Go map
MapPut(m, key, value) ==
    [k \in DOMAIN m \cup {key} |-> IF k = key THEN value ELSE m[k]]

\* m[key] read on a Go map of strings: the zero value "" when absent
MapGet(m, key) == IF key \in DOMAIN m THEN m[key] ELSE ""

\* the values of a Go map
MapValues(m) == {m[k] : k \in DOMAIN m}

\* every order in which a range loop may visit the keys of a Go map
RECURSIVE RangeOrders(_)
RangeOrders(S) ==
    IF S = {} THEN {<<>>}
    ELSE UNION {{<<k>> \o s : s \in RangeOrders(S \ {k})} : k \in S}


-----------------------------------------------------------------------------
\* package importer

\* importer.New
NewImporter == [imports |-> EmptyMap, toAlias |-> FALSE, aliasedImports |-> EmptyMap]

\* a plausible slip: the entry is overwritten when the path is already there
addImportOverwrite(r, p) ==
    IF p = NilPkg THEN r
    ELSE [r EXCEPT !.toAlias = TRUE, !.imports = MapPut(r.imports, p.path, p)]

\* a plausible slip: the cache is not invalidated by a new path
addImportKeepCache(r, p) ==
    IF p = NilPkg THEN r
    ELSE IF p.path \notin DOMAIN r.imports
         THEN [r EXCEPT !.imports = MapPut(r.imports, p.path, p)]
         ELSE r

\* a plausible slip: every non-nil AddImport invalidates the cache
addImportAlwaysStale(r, p) ==
    IF p = NilPkg THEN r
    ELSE IF p.path \notin DOMAIN r.imports
         THEN [r EXCEPT !.toAlias = TRUE, !.imports = MapPut(r.imports, p.path, p)]
         ELSE [r EXCEPT !.toAlias = TRUE]

\* Importer.addImport
addImport(r, p) ==
    IF p = NilPkg THEN r
    ELSE IF p.path \notin DOMAIN r.imports
         THEN [r EXCEPT !.toAlias = TRUE, !.imports = MapPut(r.imports, p.path, p)]
         ELSE r

\* Importer.importsList: the packages of the map, one slice element for each
\* path, in the unspecified order of the range loop (kept as their set)
importsList(r) == {r.imports[k] : k \in DOMAIN r.imports}

\* string order of Go (bytewise lexicographic), as slices.Sort uses it
RECURSIVE Less(_, _)
Less(a, b) ==
    IF a = <<>> THEN b # <<>>
    ELSE IF b = <<>> THEN FALSE
    ELSE IF Head(a) # Head(b) THEN Head(a) < Head(b)
    ELSE Less(Tail(a), Tail(b))

\* s with x inserted before the first element that is not smaller
RECURSIVE Insert(_, _)
Insert(s, x) ==
    IF s = <<>> THEN <<x>>
    ELSE IF Less(Head(s), x) THEN <<Head(s)>> \o Insert(Tail(s), x)
    ELSE <<x>> \o s

\* a plausible slip: the paths are aliased in the order the map yields them
SortOmitted(s) == s

\* slices.Sort(paths)
RECURSIVE Sort(_)
Sort(s) == IF s = <<>> THEN <<>> ELSE Insert(Sort(Tail(s)), Head(s))

\* the slice paths of aliasImports once sorted: the paths are collected in
\* whatever order the map yields them, then sorted; nothing is collected when
\* the assignment is up to date
sortedPaths(r) ==
    IF r.toAlias THEN {Sort(iter) : iter \in RangeOrders(DOMAIN r.imports)}
    ELSE {<<>>}

\* fmt.Sprintf("%s_%d", name, i)
Sprintf(name, i) == name \o "_" \o ToString(i)

\* a plausible slip: the candidate is suffixed once and not checked again
aliasLoopOnce(name, alias, i, orderedImports) ==
    IF alias \in MapValues(orderedImports) THEN Sprintf(name, i) ELSE alias

\* the aliasLoop of aliasImports: while the candidate is the alias of an
\* earlier path, take name_i and scan again
RECURSIVE aliasLoop(_, _, _, _)
aliasLoop(name, alias, i, orderedImports) ==
    IF alias \in MapValues(orderedImports)
    THEN aliasLoop(name, Sprintf(name, i), i + 1, orderedImports)
    ELSE alias

\* a plausible slip: the suffix counter starts at 1
newAliasFromOne(name, orderedImports) == aliasLoop(name, name, 1, orderedImports)

\* the alias of one package given the aliases of the earlier paths
newAlias(name, orderedImports) == aliasLoop(name, name, 2, orderedImports)

\* the loop of aliasImports over the sorted paths, from index k on
RECURSIVE aliasPaths(_, _, _, _)
aliasPaths(imports, paths, k, orderedImports) ==
    IF k > Len(paths) THEN orderedImports
    ELSE aliasPaths(imports, paths, k + 1,
            MapPut(orderedImports, paths[k],
                   newAlias(imports[paths[k]].name, orderedImports)))

\* Importer.aliasImports; paths is the sorted slice of the paths. The result
\* is the registry afterwards and the returned map.
aliasImports(r, paths) ==
    IF ~r.toAlias THEN [imp |-> r, out |-> r.aliasedImports]
    ELSE LET orderedImports == aliasPaths(r.imports, paths, 1, EmptyMap)
         IN  [imp |-> [r EXCEPT !.aliasedImports = orderedImports, !.toAlias = FALSE],
              out |-> orderedImports]

\* a plausible slip: the lookup reads the cache without recomputing it
aliasOfStale(r, path, paths) == [imp |-> r, out |-> MapGet(r.aliasedImports, path)]

\* Importer.aliasOf
aliasOf(r, path, paths) ==
    LET r2 == IF r.toAlias THEN aliasImports(r, paths).imp ELSE r
    IN  [imp |-> r2, out |-> MapGet(r2.aliasedImports, path)]

-----------------------------------------------------------------------------
\* package aliaser: objects, their types and the type walker

\* types.Typ[...], a basic type
Basic == [kind |-> "Basic"]

\* a *types.TypeParam with the given constraint
TypeParam(constraint) == [kind |-> "TypeParam", constraint |-> constraint]

\* a *types.Named declared in package p, with its type parameters and its
\* type arguments
NamedOf(p, tparams, targs) ==
    [kind |-> "Named", pkg |-> p, tparams |-> tparams, targs |-> targs]

\* a *types.Named declared in package p that is not generic
Named(p) == NamedOf(p, <<>>, <<>>)

\* a *types.Pointer, *types.Slice, *types.Array or *types.Chan: the types
\* that have the method Elem() and are not maps
ElemType(kind, elem) == [kind |-> kind, elem |-> elem]

ElemKinds == {"Pointer", "Slice", "Array", "Chan"}

\* a *types.Slice
Slice(elem) == ElemType("Slice", elem)

\* a *types.Map
MapOf(key, elem) == [kind |-> "Map", key |-> key, elem |-> elem]

\* types.NewSignatureType(nil, nil, tparams, params, results, variadic)
NewSignatureType(tparams, params, results, variadic) ==
    [kind |-> "Signature", tparams |-> tparams, params |-> params,
     results |-> results, variadic |-> variadic]

\* a *types.Signature that is neither generic nor variadic
SignatureOf(params, results) == NewSignatureType(<<>>, params, results, FALSE)

\* a *types.Struct
StructOf(fields) == [kind |-> "Struct", fields |-> fields]

\* a *types.Interface: its methods and embedded types
InterfaceOf(methods, embeddeds) ==
    [kind |-> "Interface", methods |-> methods, embeddeds |-> embeddeds]

\* types.NewConst, NewVar, NewFunc, NewTypeName: an object of a package
NewObject(pkg, name, typ) == [name |-> name, pkg |-> pkg, typ |-> typ]

RECURSIVE importType(_, _)
RECURSIVE importSwitch(_, _)
RECURSIVE importObjects(_, _, _)
RECURSIVE importTypes(_, _, _)
RECURSIVE importConstraints(_, _, _)

\* a plausible slip: the key of a map is not walked
importSwitchSkipsKey(r, typ) ==
    CASE typ.kind = "Named" -> addImport(r, typ.pkg)
      [] typ.kind = "Map" -> importType(r, typ.elem)
      [] typ.kind \in ElemKinds -> importType(r, typ.elem)
      [] typ.kind = "Signature" ->
            importObjects(importObjects(r, typ.params, 1), typ.results, 1)
      [] typ.kind = "Struct" -> importObjects(r, typ.fields, 1)
      [] typ.kind = "Interface" ->
            importTypes(importObjects(r, typ.methods, 1), typ.embeddeds, 1)
      [] OTHER -> r

\* the type switch of objectResolver.importType
importSwitch(r, typ) ==
    CASE typ.kind = "Named" -> addImport(r, typ.pkg)
      [] typ.kind = "Map" -> importType(importType(r, typ.key), typ.elem)
      [] typ.kind \in ElemKinds -> importType(r, typ.elem)
      [] typ.kind = "Signature" ->
            importObjects(importObjects(r, typ.params, 1), typ.results, 1)
      [] typ.kind = "Struct" -> importObjects(r, typ.fields, 1)
      [] typ.kind = "Interface" ->
            importTypes(importObjects(r, typ.methods, 1), typ.embeddeds, 1)
      [] OTHER -> r

\* the end of objectResolver.importType: the constraints of the type
\* parameters, then the type arguments, of a type that has them
importTypeParams(r, typ) ==
    IF typ.kind \in {"Named", "Signature"}
    THEN importConstraints(r, typ.tparams, 1) ELSE r

importTypeArgs(r, typ) ==
    IF typ.kind = "Named" THEN importTypes(r, typ.targs, 1) ELSE r

\* objectResolver.importType: the registry after the packages of the named
\* types in typ were added
importType(r, typ) ==
    importTypeArgs(importTypeParams(importSwitch(r, typ), typ), typ)

\* ForEach(o.varImporter), ForEach(o.funcImporter): importObject on each
\* object, from the k-th on
importObjects(r, os, k) ==
    IF k > Len(os) THEN r
    ELSE importObjects(importType(addImport(r, os[k].pkg), os[k].typ), os, k + 1)

\* ForEach(o.importType), from the k-th type on
importTypes(r, ts, k) ==
    IF k > Len(ts) THEN r ELSE importTypes(importType(r, ts[k]), ts, k + 1)

\* ForEach over the type parameters: importType(tp.Constraint())
importConstraints(r, tps, k) ==
    IF k > Len(tps) THEN r
    ELSE importConstraints(importType(r, tps[k].constraint), tps, k + 1)

\* no declaration is being looked at
NoDecl == [typ |-> Basic, depth |-> 0]

\* newObjectResolver(obj, imp), as NewConst, NewVar, NewFunc and NewTypeName
\* call it: the registry after the symbol was made
newObjectResolver(obj, r) == importType(r, obj.typ)

-----------------------------------------------------------------------------
\* package aliaser: the signature of a function and its wrapper

\* no goroutine
None == 0

\* a nil *types.Signature
NilSignature == [kind |-> "nil"]

\* NewSignature(sig, imp): wrapper is nil and once is new; done and m are
\* the fields of the sync.Once, ai is the alias mapping its function read
NewSignature(sig) ==
    [Signature |-> sig, wrapper |-> NilSignature, done |-> FALSE, m |-> None,
     ai |-> EmptyMap]

\* a plausible slip: the name that is in the list is kept
NewAliasedTupleKeeps(aliases, tuple) == tuple

\* NewAliasedTuple(aliases, tuple)
NewAliasedTuple(aliases, tuple) ==
    [i \in DOMAIN tuple |->
        IF tuple[i].name \in aliases
        THEN NewObject(tuple[i].pkg, tuple[i].name \o "_", tuple[i].typ)
        ELSE tuple[i]]

\* the function Signature.Wrapper gives to once.Do, after it has read the
\* alias mapping ai: the wrapper it stores
newWrapper(sig, ai) ==
    NewSignatureType(sig.tparams,
                     NewAliasedTuple(MapValues(ai), sig.params),
                     NewAliasedTuple(MapValues(ai), sig.results),
                     sig.variadic)

\* strings.Join(names, sep), from the k-th name on
RECURSIVE Join(_, _, _)
Join(ns, sep, k) ==
    IF k > Len(ns) THEN ""
    ELSE IF k = Len(ns) THEN ns[k]
    ELSE ns[k] \o sep \o Join(ns, sep, k + 1)

\* a plausible slip: the marker is put on every name of a variadic function
callArgNamesAllSpread(s) ==
    [i \in DOMAIN s.wrapper.params |->
        IF s.Signature.variadic
        THEN s.wrapper.params[i].name \o "..."
        ELSE s.wrapper.params[i].name]

\* the names Func.CallArgs joins
callArgNames(s) ==
    [i \in DOMAIN s.wrapper.params |->
        IF i = Len(s.wrapper.params) /\ s.Signature.variadic
        THEN s.wrapper.params[i].name \o "..."
        ELSE s.wrapper.params[i].name]

\* Func.CallArgs, after fn.tsig.Wrapper() has returned
CallArgs(s) ==
    IF Len(s.wrapper.params) = 0 THEN "" ELSE Join(callArgNames(s), ", ", 1)

\* Func.WriteSignature, after fn.tsig.Wrapper() has returned: the names of
\* the parameters and of the results that types.WriteSignature writes, in
\* their order, and whether the last parameter is written as variadic
WriteSignature(s) ==
    [params |-> [i \in DOMAIN s.wrapper.params |-> s.wrapper.params[i].name],
     results |-> [i \in DOMAIN s.wrapper.results |-> s.wrapper.results[i].name],
     variadic |-> s.wrapper.variadic]

\* Func.Returns
Returns(s) == Len(s.Signature.results) > 0

-----------------------------------------------------------------------------
\* package aliaser: the symbol table and the duplicate names

constantId == 1
variableId == 2
functionId == 3
typeId == 4

ObjectIds == {constantId, variableId, functionId, typeId}

OnDuplicateSkip == 0
OnDuplicateReplace == 1
OnDuplicatePanic == 2

\* the zero value of config.onDuplicate, which setDefaults leaves alone
DefaultOnDuplicate == 0

\* slices.DeleteFunc(s, newObjSliceDel(o)): s without the objects named like o
\* a plausible slip: the last symbol is moved into the place of the deleted one
DeleteFuncSwap(s, o) ==
    IF \A i \in DOMAIN s : s[i].name # o.name THEN s
    ELSE LET i == CHOOSE j \in DOMAIN s : s[j].name = o.name
         IN  SubSeq([s EXCEPT ![i] = s[Len(s)]], 1, Len(s) - 1)

\* slices.DeleteFunc with newObjSliceDel: the symbols named as o are removed
DeleteFunc(s, o) == SelectSeq(s, LAMBDA x : x.name # o.name)

\* the Aliaser as the methods below see it
Aliaser ==
    [constants |-> constants, variables |-> variables, functions |-> functions,
     types |-> types, names |-> names, onDuplicate |-> onDuplicate,
     Importer |-> imp, panicked |-> FALSE]

\* a plausible slip: an unknown object id is passed over
deleteObjectIgnoresUnknown(a, o, id) ==
    CASE id = constantId -> [a EXCEPT !.constants = DeleteFunc(@, o)]
      [] id = variableId -> [a EXCEPT !.variables = DeleteFunc(@, o)]
      [] id = functionId -> [a EXCEPT !.functions = DeleteFunc(@, o)]
      [] id = typeId -> [a EXCEPT !.types = DeleteFunc(@, o)]
      [] OTHER -> a

\* Aliaser.deleteObject
deleteObject(a, o, id) ==
    CASE id = constantId -> [a EXCEPT !.constants = DeleteFunc(@, o)]
      [] id = variableId -> [a EXCEPT !.variables = DeleteFunc(@, o)]
      [] id = functionId -> [a EXCEPT !.functions = DeleteFunc(@, o)]
      [] id = typeId -> [a EXCEPT !.types = DeleteFunc(@, o)]
      [] OTHER -> [a EXCEPT !.panicked = TRUE]

\* a plausible slip: the object is deleted from the sequence of the new kind
addObjectNameDeleteNew(a, o, id) ==
    IF o.name \notin DOMAIN a.names
    THEN [a |-> [a EXCEPT !.names = MapPut(@, o.name, id)], skip |-> FALSE]
    ELSE CASE a.onDuplicate = OnDuplicateSkip -> [a |-> a, skip |-> TRUE]
           [] a.onDuplicate = OnDuplicateReplace ->
                [a |-> deleteObject([a EXCEPT !.names = MapPut(@, o.name, id)], o, id),
                 skip |-> FALSE]
           [] OTHER -> [a |-> [a EXCEPT !.panicked = TRUE], skip |-> FALSE]

\* a plausible slip: the index is written before the policy is looked at
addObjectNameSkipPuts(a, o, id) ==
    IF o.name \notin DOMAIN a.names
    THEN [a |-> [a EXCEPT !.names = MapPut(@, o.name, id)], skip |-> FALSE]
    ELSE CASE a.onDuplicate = OnDuplicateSkip ->
                [a |-> [a EXCEPT !.names = MapPut(@, o.name, id)], skip |-> TRUE]
           [] a.onDuplicate = OnDuplicateReplace ->
                [a |-> deleteObject([a EXCEPT !.names = MapPut(@, o.name, id)],
                                    o, a.names[o.name]),
                 skip |-> FALSE]
           [] OTHER -> [a |-> [a EXCEPT !.panicked = TRUE], skip |-> FALSE]

\* a plausible slip: under Panic the index is swapped before the panic
addObjectNamePanicAfterSwap(a, o, id) ==
    IF o.name \notin DOMAIN a.names
    THEN [a |-> [a EXCEPT !.names = MapPut(@, o.name, id)], skip |-> FALSE]
    ELSE CASE a.onDuplicate = OnDuplicateSkip -> [a |-> a, skip |-> TRUE]
           [] a.onDuplicate = OnDuplicateReplace ->
                [a |-> deleteObject([a EXCEPT !.names = MapPut(@, o.name, id)],
                                    o, a.names[o.name]),
                 skip |-> FALSE]
           [] OTHER ->
                [a |-> [a EXCEPT !.names = MapPut(@, o.name, id),
                                 !.panicked = TRUE],
                 skip |-> FALSE]

\* Aliaser.addObjectName: names.PutNX, then the policy on a duplicate name
\* (Replace: names.Swap and deleteObject with the old kind)
addObjectName(a, o, id) ==
    IF o.name \notin DOMAIN a.names
    THEN [a |-> [a EXCEPT !.names = MapPut(@, o.name, id)], skip |-> FALSE]
    ELSE CASE a.onDuplicate = OnDuplicateSkip -> [a |-> a, skip |-> TRUE]
           [] a.onDuplicate = OnDuplicateReplace ->
                [a |-> deleteObject([a EXCEPT !.names = MapPut(@, o.name, id)],
                                    o, a.names[o.name]),
                 skip |-> FALSE]
           [] OTHER -> [a |-> [a EXCEPT !.panicked = TRUE], skip |-> FALSE]

\* a plausible slip: the constant is appended although its name was skipped
addConstantIgnoresSkip(a, c) ==
    LET n == addObjectName(a, c, constantId)
    IN  IF n.a.panicked THEN n.a
        ELSE [n.a EXCEPT !.constants = Append(@, c),
                         !.Importer = addImport(newObjectResolver(c, @), c.pkg)]

\* Aliaser.addConstant: NewConst, append, AddImport(c.Pkg())
addConstant(a, c) ==
    LET n == addObjectName(a, c, constantId)
    IN  IF n.a.panicked \/ n.skip THEN n.a
        ELSE [n.a EXCEPT !.constants = Append(@, c),
                         !.Importer = addImport(newObjectResolver(c, @), c.pkg)]

\* a plausible slip: the symbol is made before its name is looked up
addVariableResolvesFirst(a, v) ==
    LET n == addObjectName(a, v, variableId)
    IN  IF n.a.panicked THEN n.a
        ELSE IF n.skip
        THEN [n.a EXCEPT !.Importer = newObjectResolver(v, addImport(@, v.pkg))]
        ELSE [n.a EXCEPT !.variables = Append(@, v),
                         !.Importer = newObjectResolver(v, addImport(@, v.pkg))]

\* Aliaser.addVariable: AddImport(v.Pkg()), NewVar, append
addVariable(a, v) ==
    LET n == addObjectName(a, v, variableId)
    IN  IF n.a.panicked \/ n.skip THEN n.a
        ELSE [n.a EXCEPT !.variables = Append(@, v),
                         !.Importer = newObjectResolver(v, addImport(@, v.pkg))]

\* Aliaser.addFunction: AddImport(fn.Pkg()), NewFunc, append
addFunction(a, fn) ==
    LET n == addObjectName(a, fn, functionId)
    IN  IF n.a.panicked \/ n.skip THEN n.a
        ELSE [n.a EXCEPT !.functions = Append(@, fn),
                         !.Importer = newObjectResolver(fn, addImport(@, fn.pkg))]

\* Aliaser.addType: AddImport(t.Pkg()), NewTypeName, append
addType(a, t) ==
    LET n == addObjectName(a, t, typeId)
    IN  IF n.a.panicked \/ n.skip THEN n.a
        ELSE [n.a EXCEPT !.types = Append(@, t),
                         !.Importer = newObjectResolver(t, addImport(@, t.pkg))]

\* the add method of a kind
addObject(a, o, id) ==
    CASE id = constantId -> addConstant(a, o)
      [] id = variableId -> addVariable(a, o)
      [] id = functionId -> addFunction(a, o)
      [] id = typeId -> addType(a, o)

\* the loop of AddConstants, AddVariables, AddFunctions and AddTypes over
\* their arguments, from the k-th on; a panic ends the call
RECURSIVE addAll(_, _, _, _)
addAll(a, os, k, id) ==
    IF k > Len(os) \/ a.panicked THEN a
    ELSE addAll(addObject(a, os[k], id), os, k + 1, id)

-----------------------------------------------------------------------------
\* package aliaser: Config, New and the scan of the loaded package

\* a nil *Config
NilConfig == [nil |-> TRUE]

\* &Config{TargetPackage: target, Pattern: pattern}: the unexported fields
\* have their zero values
ConfigOf(target, pattern) ==
    [nil |-> FALSE, TargetPackage |-> target, Pattern |-> pattern, Header |-> "",
     excludeConstants |-> FALSE, excludeVariables |-> FALSE,
     excludeFunctions |-> FALSE, excludeTypes |-> FALSE,
     excludedNamesMade |-> FALSE, excludedNames |-> {},
     onDuplicate |-> DefaultOnDuplicate]

DefaultHeader == "// Code generated by aliaser. DO NOT EDIT."

\* Config.setDefaults
setDefaults(c) ==
    [c EXCEPT !.excludedNamesMade = TRUE,
              !.excludedNames = {},
              !.Header = IF @ = "" THEN DefaultHeader ELSE @]

\* the options: ExcludeConstants(v), ExcludeVariables(v), ExcludeFunctions(v),
\* ExcludeTypes(v), ExcludeNames(ns...), OnDuplicate(v)
Option(opt, flag, ns, policy) ==
    [opt |-> opt, flag |-> flag, names |-> ns, policy |-> policy]

ExcludeConstants(v) == Option("ExcludeConstants", v, {}, 0)
ExcludeVariables(v) == Option("ExcludeVariables", v, {}, 0)
ExcludeFunctions(v) == Option("ExcludeFunctions", v, {}, 0)
ExcludeTypes(v) == Option("ExcludeTypes", v, {}, 0)
ExcludeNames(ns) == Option("ExcludeNames", FALSE, ns, 0)
OnDuplicate(v) == Option("OnDuplicate", FALSE, {}, v)

\* option.set
set(o, c) ==
    CASE o.opt = "ExcludeConstants" -> [c EXCEPT !.excludeConstants = o.flag]
      [] o.opt = "ExcludeVariables" -> [c EXCEPT !.excludeVariables = o.flag]
      [] o.opt = "ExcludeFunctions" -> [c EXCEPT !.excludeFunctions = o.flag]
      [] o.opt = "ExcludeTypes" -> [c EXCEPT !.excludeTypes = o.flag]
      [] o.opt = "ExcludeNames" -> [c EXCEPT !.excludedNames = @ \cup o.names]
      [] o.opt = "OnDuplicate" -> [c EXCEPT !.onDuplicate = o.policy]

\* Config.applyOptions, from the k-th option on
RECURSIVE applyOptions(_, _, _)
applyOptions(c, opts, k) ==
    IF k > Len(opts) THEN c ELSE applyOptions(set(opts[k], c), opts, k + 1)

\* the errors of New
NoError == "nil"
ErrNilConfig == "ErrNilConfig"
ErrEmptyTarget == "ErrEmptyTarget"
ErrEmptyPattern == "ErrEmptyPattern"
ErrLoad == "load packages"
ErrPackages == "expected one package"
ErrPackage == "package errors"
ErrObjectType == "unexpected object type"

\* a nil *Aliaser
NilAliaser == [nil |-> TRUE]

\* &Aliaser{Config: c, Importer: importer.New(), names: set.New()}
NewAliaser(c) ==
    [nil |-> FALSE, Config |-> c, onDuplicate |-> c.onDuplicate,
     constants |-> <<>>, variables |-> <<>>, functions |-> <<>>, types |-> <<>>,
     names |-> EmptyMap, Importer |-> NewImporter, panicked |-> FALSE]

\* the names of the model that token.IsExported accepts: they start with an
\* upper-case letter
ExportedNames == {"A", "B"}

\* types.Object.Exported
Exported(o) == o.name \in ExportedNames

\* an object of a package scope: kind is the dynamic type of the types.Object
ScopeObject(kind, pkg, name, typ) ==
    [kind |-> kind, pkg |-> pkg, name |-> name, typ |-> typ]

\* a plausible slip: the exclude flag is looked at before the kind is known
addPkgObjectFlagFirst(a, o) ==
    CASE ~Exported(o) -> [a |-> a, err |-> NoError]
      [] o.name \in a.Config.excludedNames -> [a |-> a, err |-> NoError]
      [] a.Config.excludeFunctions -> [a |-> a, err |-> NoError]
      [] o.kind = "Const" ->
            [a |-> IF a.Config.excludeConstants THEN a
                   ELSE addAll(a, <<NewObject(o.pkg, o.name, o.typ)>>, 1, constantId),
             err |-> NoError]
      [] o.kind = "Var" ->
            [a |-> IF a.Config.excludeVariables THEN a
                   ELSE addAll(a, <<NewObject(o.pkg, o.name, o.typ)>>, 1, variableId),
             err |-> NoError]
      [] o.kind = "Func" ->
            [a |-> addAll(a, <<NewObject(o.pkg, o.name, o.typ)>>, 1, functionId),
             err |-> NoError]
      [] o.kind = "TypeName" ->
            [a |-> IF a.Config.excludeTypes THEN a
                   ELSE addAll(a, <<NewObject(o.pkg, o.name, o.typ)>>, 1, typeId),
             err |-> NoError]
      [] OTHER -> [a |-> a, err |-> ErrObjectType]

\* a plausible slip: an unexported object of an unexpected kind is an error
addPkgObjectKindFirst(a, o) ==
    CASE o.kind \notin {"Const", "Var", "Func", "TypeName"} ->
            [a |-> a, err |-> ErrObjectType]
      [] ~Exported(o) -> [a |-> a, err |-> NoError]
      [] o.name \in a.Config.excludedNames -> [a |-> a, err |-> NoError]
      [] o.kind = "Const" ->
            [a |-> IF a.Config.excludeConstants THEN a
                   ELSE addAll(a, <<NewObject(o.pkg, o.name, o.typ)>>, 1, constantId),
             err |-> NoError]
      [] o.kind = "Var" ->
            [a |-> IF a.Config.excludeVariables THEN a
                   ELSE addAll(a, <<NewObject(o.pkg, o.name, o.typ)>>, 1, variableId),
             err |-> NoError]
      [] o.kind = "Func" ->
            [a |-> IF a.Config.excludeFunctions THEN a
                   ELSE addAll(a, <<NewObject(o.pkg, o.name, o.typ)>>, 1, functionId),
             err |-> NoError]
      [] OTHER ->
            [a |-> IF a.Config.excludeTypes THEN a
                   ELSE addAll(a, <<NewObject(o.pkg, o.name, o.typ)>>, 1, typeId),
             err |-> NoError]

\* the body of the loop of Aliaser.addPkgObjects for the object o
addPkgObject(a, o) ==
    CASE ~Exported(o) -> [a |-> a, err |-> NoError]
      [] o.name \in a.Config.excludedNames -> [a |-> a, err |-> NoError]
      [] o.kind = "Const" ->
            [a |-> IF a.Config.excludeConstants THEN a
                   ELSE addAll(a, <<NewObject(o.pkg, o.name, o.typ)>>, 1, constantId),
             err |-> NoError]
      [] o.kind = "Var" ->
            [a |-> IF a.Config.excludeVariables THEN a
                   ELSE addAll(a, <<NewObject(o.pkg, o.name, o.typ)>>, 1, variableId),
             err |-> NoError]
      [] o.kind = "Func" ->
            [a |-> IF a.Config.excludeFunctions THEN a
                   ELSE addAll(a, <<NewObject(o.pkg, o.name, o.typ)>>, 1, functionId),
             err |-> NoError]
      [] o.kind = "TypeName" ->
            [a |-> IF a.Config.excludeTypes THEN a
                   ELSE addAll(a, <<NewObject(o.pkg, o.name, o.typ)>>, 1, typeId),
             err |-> NoError]
      [] OTHER -> [a |-> a, err |-> ErrObjectType]

\* the loop of Aliaser.addPkgObjects over the objects of the scope, in the
\* order of Scope.Names(), from the k-th on; an error ends the loop
RECURSIVE scanScope(_, _, _)
RECURSIVE scanNext(_, _, _)
scanScope(a, scope, k) ==
    IF k > Len(scope) THEN [a |-> a, err |-> NoError]
    ELSE scanNext(addPkgObject(a, scope[k]), scope, k + 1)

\* the loop goes on after the body returned r, unless r is an error
scanNext(r, scope, k) ==
    IF r.err # NoError THEN r ELSE scanScope(r.a, scope, k)

\* Aliaser.addPkgObjects
addPkgObjects(a, pkg) ==
    scanScope([a EXCEPT !.Importer = addImport(@, pkg.Types)], pkg.Scope, 1)

\* Aliaser.load, given what packages.Load returns
load(a, loaded) ==
    CASE loaded.err -> [a |-> a, err |-> ErrLoad]
      [] Len(loaded.pkgs) # 1 -> [a |-> a, err |-> ErrPackages]
      [] loaded.pkgs[1].Errors -> [a |-> a, err |-> ErrPackage]
      [] OTHER -> addPkgObjects(a, loaded.pkgs[1])

\* the end of New: load has returned r for the session of the configuration
\* cfg
NewLoaded(r, cfg) ==
    [a |-> IF r.err # NoError THEN NilAliaser ELSE r.a,
     err |-> r.err, c |-> cfg, loaded |-> TRUE]

\* New after the configuration was validated: cfg is the configuration
\* with its defaults and options
NewValid(cfg, loaded) == NewLoaded(load(NewAliaser(cfg), loaded), cfg)

\* a plausible slip: the pattern is validated before the target
NewPatternFirst(c, opts, loaded) ==
    CASE c.nil ->
            [a |-> NilAliaser, err |-> ErrNilConfig, c |-> c, loaded |-> FALSE]
      [] c.Pattern = "" ->
            [a |-> NilAliaser, err |-> ErrEmptyPattern, c |-> c, loaded |-> FALSE]
      [] c.TargetPackage = "" ->
            [a |-> NilAliaser, err |-> ErrEmptyTarget, c |-> c, loaded |-> FALSE]
      [] OTHER -> NewValid(applyOptions(setDefaults(c), opts, 1), loaded)

\* New(c, opts...), given what packages.Load returns if it is called: the
\* *Aliaser and the error returned, the Config c points to afterwards, and
\* whether the package was loaded
New(c, opts, loaded) ==
    CASE c.nil ->
            [a |-> NilAliaser, err |-> ErrNilConfig, c |-> c, loaded |-> FALSE]
      [] c.TargetPackage = "" ->
            [a |-> NilAliaser, err |-> ErrEmptyTarget, c |-> c, loaded |-> FALSE]
      [] c.Pattern = "" ->
            [a |-> NilAliaser, err |-> ErrEmptyPattern, c |-> c, loaded |-> FALSE]
      [] OTHER -> NewValid(applyOptions(setDefaults(c), opts, 1), loaded)

-----------------------------------------------------------------------------
\* the registry called from one thread of control

NoCall == [op |-> "none", arg |-> NilPkg, val |-> EmptyMap, panicked |-> FALSE]

\* calls:   AliasedImports calls made since a new path was last registered
\*          (counted up to two)
\* aliased: the map the last AliasedImports call returned
\* added:   the paths registered since the assignment was last computed
\* newly:   the paths the last recomputation aliased for the first time
\* moved:   the paths whose alias the last recomputation changed
NoHist == [calls |-> 0, aliased |-> EmptyMap, added |-> {}, newly |-> {}, moved |-> {}]

\* the history after a call that left the registry as r2
Recompute(r, r2, h) ==
    IF r.toAlias /\ ~r2.toAlias
    THEN [h EXCEPT !.added = {},
                   !.newly = h.added,
                   !.moved = {q \in DOMAIN r.aliasedImports :
                                 r2.aliasedImports[q] # r.aliasedImports[q]}]
    ELSE h

Procs == 1..NumProcs

\* sync.RWMutex: w is the goroutine that holds the writer mutex (it has
\* announced itself and waits for the readers to leave, or holds the lock),
\* readers are the goroutines holding the read lock
Unlocked == [w |-> None, readers |-> {}]

Idle == [op |-> "none", arg |-> NilPkg]

\* no call of GenerateFile has been made
NoFile == [pc |-> "none"]

\* no type graph is being walked
NoWalk == [pc |-> "none"]

Init ==
    /\ imp = NewImporter
    /\ ret = NoCall
    /\ hist = NoHist
    /\ mu = Unlocked
    /\ pc = [g \in Procs |-> "idle"]
    /\ call = [g \in Procs |-> Idle]
    /\ constants = <<>>
    /\ variables = <<>>
    /\ functions = <<>>
    /\ types = <<>>
    /\ names = EmptyMap
    /\ onDuplicate = DefaultOnDuplicate
    /\ conf = NilConfig
    /\ decl = NoDecl
    /\ tsig = NewSignature(SignatureOf(<<>>, <<>>))
    /\ amu = Unlocked
    /\ fs = NoFile
    /\ walk = NoWalk

\* the history after AddImport calls took the registry from r to r2
Registered(r, r2, h) ==
    IF DOMAIN r2.imports # DOMAIN r.imports
    THEN [h EXCEPT !.calls = 0,
                   !.added = @ \cup (DOMAIN r2.imports \ DOMAIN r.imports)]
    ELSE h

\* Importer.AddImport(p), the lock taken and released within the step
AddImport(p) ==
    /\ imp' = addImport(imp, p)
    /\ ret' = [op |-> "AddImport", arg |-> p, val |-> EmptyMap, panicked |-> FALSE]
    /\ hist' = Registered(imp, imp', hist)

\* Importer.Imports()
Imports ==
    /\ ret' = [op |-> "Imports", arg |-> NilPkg, val |-> importsList(imp),
               panicked |-> FALSE]
    /\ UNCHANGED <<imp, hist>>

\* Importer.AliasedImports()
AliasedImports ==
    \E paths \in sortedPaths(imp) :
        LET res == aliasImports(imp, paths)
            h   == Recompute(imp, res.imp, hist)
        IN  /\ imp' = res.imp
            /\ ret' = [op |-> "AliasedImports", arg |-> NilPkg, val |-> res.out,
                       panicked |-> FALSE]
            /\ hist' = [h EXCEPT !.calls = IF @ < 2 THEN @ + 1 ELSE @,
                                 !.aliased = res.out]

\* Importer.AliasOf(path)
AliasOf(path) ==
    \E paths \in sortedPaths(imp) :
        LET res == aliasOf(imp, path, paths)
        IN  /\ imp' = res.imp
            /\ ret' = [op |-> "AliasOf", arg |-> path, val |-> res.out,
                       panicked |-> FALSE]
            /\ hist' = Recompute(imp, res.imp, hist)

SeqAddImport ==
    /\ \E p \in Packages \cup {NilPkg} : AddImport(p)
    /\ UNCHANGED <<lockVars, tabVars>>

SeqImports == Imports /\ UNCHANGED <<lockVars, tabVars>>

SeqAliasedImports == AliasedImports /\ UNCHANGED <<lockVars, tabVars>>

SeqAliasOf ==
    /\ \E path \in Paths : AliasOf(path)
    /\ UNCHANGED <<lockVars, tabVars>>

Next ==
    \/ SeqAddImport
    \/ SeqImports
    \/ SeqAliasedImports
    \/ SeqAliasOf

Spec == Init /\ [][Next]_vars

-----------------------------------------------------------------------------
\* the registry called by several goroutines: each call takes the lock, runs
\* its body while holding it and releases it on return

\* the packages and the path the concurrent callers use
LockPackages == {NewPackage(PathOf(1), "fake"), NewPackage(PathOf(2), "fake")}

LockCalls ==
    {[op |-> "AddImport", arg |-> p] : p \in LockPackages}
    \cup {[op |-> "Imports", arg |-> NilPkg],
          [op |-> "AliasedImports", arg |-> NilPkg],
          [op |-> "AliasOf", arg |-> NewPackage(PathOf(1), "")]}

\* a plausible slip: AliasOf takes the read lock like Imports
LockModeAliasOfShared(op) == IF op \in {"Imports", "AliasOf"} THEN "R" ELSE "W"

\* how each exported method takes imp.mu: Imports calls RLock, the others Lock
LockMode(op) == IF op = "Imports" THEN "R" ELSE "W"

\* a goroutine calls an exported method
Call(g, c) ==
    /\ pc[g] = "idle"
    /\ pc' = [pc EXCEPT ![g] = "enter"]
    /\ call' = [call EXCEPT ![g] = c]
    /\ UNCHANGED <<mu, regVars, tabVars>>

\* imp.mu.RLock(): blocks while a writer holds the lock or waits for it
RLock(g) ==
    /\ pc[g] = "enter"
    /\ LockMode(call[g].op) = "R"
    /\ mu.w = None
    /\ mu' = [mu EXCEPT !.readers = @ \cup {g}]
    /\ pc' = [pc EXCEPT ![g] = "held"]
    /\ UNCHANGED <<call, regVars, tabVars>>

\* imp.mu.Lock(), first half: the writer mutex is taken, new readers are
\* held back from now on
Lock(g) ==
    /\ pc[g] = "enter"
    /\ LockMode(call[g].op) = "W"
    /\ mu.w = None
    /\ mu' = [mu EXCEPT !.w = g]
    /\ pc' = [pc EXCEPT ![g] = "drain"]
    /\ UNCHANGED <<call, regVars, tabVars>>

\* imp.mu.Lock(), second half: the readers have left
Locked(g) ==
    /\ pc[g] = "drain"
    /\ mu.readers = {}
    /\ pc' = [pc EXCEPT ![g] = "held"]
    /\ UNCHANGED <<mu, call, regVars, tabVars>>

\* the body of the method the goroutine called
Body(c) ==
    CASE c.op = "AddImport" -> AddImport(c.arg)
      [] c.op = "Imports" -> Imports
      [] c.op = "AliasedImports" -> AliasedImports
      [] c.op = "AliasOf" -> AliasOf(c.arg.path)

\* the body runs and the deferred Unlock()/RUnlock() releases the lock
Return(g) ==
    /\ pc[g] = "held"
    /\ Body(call[g])
    /\ mu' = IF mu.w = g THEN [mu EXCEPT !.w = None]
             ELSE [mu EXCEPT !.readers = @ \ {g}]
    /\ pc' = [pc EXCEPT ![g] = "idle"]
    /\ call' = [call EXCEPT ![g] = Idle]
    /\ UNCHANGED tabVars

LockNext ==
    \/ \E g \in Procs, c \in LockCalls : Call(g, c)
    \/ \E g \in Procs : RLock(g)
    \/ \E g \in Procs : Lock(g)
    \/ \E g \in Procs : Locked(g)
    \/ \E g \in Procs : Return(g)

SpecLock == Init /\ [][LockNext]_vars

-----------------------------------------------------------------------------
\* the aliasing session: objects are added to the symbol table

\* the loaded package and two packages its declarations refer to
SrcPkg == NewPackage(PathOf(2), "pkg")
JsonPkg == NewPackage(PathOf(1), "json")
Json2Pkg == NewPackage(PathOf(3), "json")

ObjNames == {"A", "B"}

\* the types of the functions
FuncTypes ==
    {SignatureOf(<<NewObject(SrcPkg, "p", Named(JsonPkg))>>,
                 <<NewObject(SrcPkg, "", Slice(Named(Json2Pkg)))>>)}

\* the types an object of a kind may have: a constant is of a basic type, a
\* type name of the named type it declares, a function of a signature
TypesOf(id) ==
    CASE id = constantId -> {Basic}
      [] id = variableId -> {Basic, MapOf(Basic, Slice(Named(JsonPkg)))}
      [] id = functionId -> FuncTypes
      [] id = typeId -> {Named(SrcPkg)}

\* the objects a caller may pass to the add method of a kind
Objects(id) == {NewObject(SrcPkg, n, t) : n \in ObjNames, t \in TypesOf(id)}

\* the argument lists of one call
Batches(id) == UNION {[1..l -> Objects(id)] : l \in 1..MaxBatch}

\* the policies a session may be configured with
Policies == {DefaultOnDuplicate, OnDuplicateSkip, OnDuplicateReplace, OnDuplicatePanic}

AddOp(id) ==
    CASE id = constantId -> "AddConstants"
      [] id = variableId -> "AddVariables"
      [] id = functionId -> "AddFunctions"
      [] id = typeId -> "AddTypes"

\* New: the session of a configuration with the given policy, the loaded
\* package registered (addPkgObjects), no object added yet
TabInit ==
    /\ imp = addImport(NewImporter, SrcPkg)
    /\ ret = NoCall
    /\ hist = Registered(NewImporter, imp, NoHist)
    /\ mu = Unlocked
    /\ pc = [g \in Procs |-> "idle"]
    /\ call = [g \in Procs |-> Idle]
    /\ constants = <<>>
    /\ variables = <<>>
    /\ functions = <<>>
    /\ types = <<>>
    /\ names = EmptyMap
    /\ onDuplicate \in Policies
    /\ conf = NilConfig
    /\ decl = NoDecl
    /\ tsig = NewSignature(SignatureOf(<<>>, <<>>))
    /\ amu = Unlocked
    /\ fs = NoFile
    /\ walk = NoWalk

\* AddConstants, AddVariables, AddFunctions, AddTypes (by the kind id) called
\* with the objects os
Add(id, os) ==
    LET a == addAll(Aliaser, os, 1, id)
    IN  /\ constants' = a.constants
        /\ variables' = a.variables
        /\ functions' = a.functions
        /\ types' = a.types
        /\ names' = a.names
        /\ imp' = a.Importer
        /\ hist' = Registered(imp, imp', hist)
        /\ ret' = [op |-> AddOp(id), arg |-> os, val |-> EmptyMap,
                   panicked |-> a.panicked]
        /\ UNCHANGED <<onDuplicate, conf, decl, tsig, lockVars, extVars>>

AddConstants == \E os \in Batches(constantId) : Add(constantId, os)
AddVariables == \E os \in Batches(variableId) : Add(variableId, os)
AddFunctions == \E os \in Batches(functionId) : Add(functionId, os)
AddTypes == \E os \in Batches(typeId) : Add(typeId, os)

TabNext ==
    \/ AddConstants
    \/ AddVariables
    \/ AddFunctions
    \/ AddTypes
    \/ SeqAliasedImports

SpecTable == TabInit /\ [][TabNext]_vars

\* the objects of a session with three names, one type for each kind
OrderNames == {"A", "B", "C"}

OrderObjects(id) ==
    {NewObject(SrcPkg, n, CHOOSE t \in TypesOf(id) : TRUE) : n \in OrderNames}

\* the kinds of which objects are added
OrderKinds == {constantId, variableId, typeId}

OrderInit == TabInit

\* AddConstants, AddVariables, AddFunctions or AddTypes called with objects
\* of the three names
OrderAdd ==
    \E id \in OrderKinds :
        \E os \in UNION {[1..l -> OrderObjects(id)] : l \in 1..MaxBatch} :
            Add(id, os)

OrderNext == OrderAdd

SpecOrder == OrderInit /\ [][OrderNext]_vars

-----------------------------------------------------------------------------
\* the construction of a session: New is called with a configuration

\* the type of an object that has none (a label)
Invalid == [kind |-> "Invalid"]

\* the configurations a caller builds
FreshConfigs ==
    {NilConfig} \cup {ConfigOf(t, p) : t \in {"", "foo"}, p \in {"", "pkg"}}

\* the option lists a caller passes
OptionLists ==
    {<<>>,
     <<ExcludeConstants(TRUE)>>, <<ExcludeVariables(TRUE)>>,
     <<ExcludeFunctions(TRUE)>>, <<ExcludeTypes(TRUE)>>,
     <<ExcludeNames({"A"})>>, <<ExcludeNames({"B", "c"})>>,
     <<ExcludeFunctions(TRUE), ExcludeNames({"B"})>>,
     <<ExcludeConstants(TRUE), ExcludeConstants(FALSE)>>,
     <<OnDuplicate(OnDuplicateReplace)>>}

ScopeKinds == {"Const", "Var", "Func", "TypeName", "Label"}

\* the object of a kind that a scope has under a name
ScopeObjectOf(kind, name) ==
    ScopeObject(kind, SrcPkg, name,
        CASE kind = "Const" -> Basic
          [] kind = "Var" -> MapOf(Basic, Slice(Named(JsonPkg)))
          [] kind = "Func" -> CHOOSE t \in FuncTypes : TRUE
          [] kind = "TypeName" -> Named(SrcPkg)
          [] OTHER -> Invalid)

\* the scopes of the loaded package, in the order of Scope.Names(): the
\* names are unique and sorted
Scopes ==
    {<<ScopeObjectOf(k1, "A"), ScopeObjectOf(k2, "B"), ScopeObjectOf(k3, "c")>> :
        k1 \in ScopeKinds, k2 \in ScopeKinds, k3 \in {"Const", "Label"}}

\* a *packages.Package
LoadedPackage(scope, errors) == [Types |-> SrcPkg, Scope |-> scope, Errors |-> errors]

\* what packages.Load may return
LoadResults ==
    {[err |-> TRUE, pkgs |-> <<>>],
     [err |-> FALSE, pkgs |-> <<>>],
     [err |-> FALSE, pkgs |-> <<LoadedPackage(<<>>, FALSE), LoadedPackage(<<>>, FALSE)>>],
     [err |-> FALSE, pkgs |-> <<LoadedPackage(<<>>, TRUE)>>]}
    \cup {[err |-> FALSE, pkgs |-> <<LoadedPackage(sc, FALSE)>>] : sc \in Scopes}

\* what packages.Load may return for the pattern of the configuration c; a
\* nil configuration or an empty pattern names no package
LoadResultsFor(c) ==
    IF c.nil \/ c.Pattern = "" THEN {[err |-> TRUE, pkgs |-> <<>>]}
    ELSE LoadResults

\* no session yet; the caller has built a configuration
NewInit ==
    /\ imp = NewImporter
    /\ ret = NoCall
    /\ hist = NoHist
    /\ mu = Unlocked
    /\ pc = [g \in Procs |-> "idle"]
    /\ call = [g \in Procs |-> Idle]
    /\ constants = <<>>
    /\ variables = <<>>
    /\ functions = <<>>
    /\ types = <<>>
    /\ names = EmptyMap
    /\ onDuplicate = DefaultOnDuplicate
    /\ conf \in FreshConfigs
    /\ decl = NoDecl
    /\ tsig = NewSignature(SignatureOf(<<>>, <<>>))
    /\ amu = Unlocked
    /\ fs = NoFile
    /\ walk = NoWalk

\* the caller keeps the session r.a that New(&conf, opts...) has returned
Returned(r, a, opts, loaded) ==
    /\ conf' = r.c
    /\ constants' = a.constants
    /\ variables' = a.variables
    /\ functions' = a.functions
    /\ types' = a.types
    /\ names' = a.names
    /\ onDuplicate' = a.onDuplicate
    /\ imp' = a.Importer
    /\ hist' = Registered(NewImporter, imp', NoHist)
    /\ ret' = [op |-> "New",
               arg |-> [c |-> conf, opts |-> opts, loaded |-> loaded],
               val |-> [nil |-> r.a.nil, err |-> r.err, loaded |-> r.loaded],
               panicked |-> FALSE]
    /\ UNCHANGED <<decl, tsig, lockVars, extVars>>

\* the session variables of a nil *Aliaser are those of an empty session
SessionOf(r) == IF r.a.nil THEN NewAliaser(ConfigOf("", "")) ELSE r.a

\* the caller calls New(&conf, opts...) (New(nil, opts...) if it has no
\* configuration), and keeps the session it gets
NewCall(r, opts, loaded) ==
    /\ ret.op = "none"
    /\ Returned(r, SessionOf(r), opts, loaded)

NewNext ==
    \E loaded \in LoadResultsFor(conf) :
        \E opts \in OptionLists : NewCall(New(conf, opts, loaded), opts, loaded)

SpecNew == NewInit /\ [][NewNext]_vars

-----------------------------------------------------------------------------
\* the symbol constructors: a declaration of some type is made a symbol

\* the types a declaration is built of
Leaves == {Basic, Named(JsonPkg), Named(Json2Pkg)}

\* the type of the declaration becomes t, one type constructor deeper
Built(t) ==
    /\ ret.op = "none"
    /\ decl.depth < MaxDepth
    /\ decl' = [typ |-> t, depth |-> decl.depth + 1]
    /\ UNCHANGED <<regVars, lockVars, constants, variables, functions, types,
                   names, onDuplicate, conf, tsig, extVars>>

\* types.NewPointer, NewSlice, NewArray, NewChan
BuildElem == \E kind \in ElemKinds : Built(ElemType(kind, decl.typ))

\* types.NewMap
BuildMap ==
    \E leaf \in Leaves :
        \/ Built(MapOf(decl.typ, leaf))
        \/ Built(MapOf(leaf, decl.typ))

\* types.NewSignatureType
BuildSignature ==
    \/ \E leaf \in Leaves :
            Built(NewSignatureType(<<>>,
                      <<NewObject(SrcPkg, "a", leaf), NewObject(SrcPkg, "b", decl.typ)>>,
                      <<>>, decl.typ.kind = "Slice"))
    \/ Built(NewSignatureType(<<>>, <<>>, <<NewObject(SrcPkg, "", decl.typ)>>, FALSE))
    \/ Built(NewSignatureType(<<TypeParam(decl.typ)>>,
                  <<NewObject(SrcPkg, "a", TypeParam(decl.typ))>>, <<>>, FALSE))

\* types.NewStruct
BuildStruct ==
    \E leaf \in Leaves :
        Built(StructOf(<<NewObject(SrcPkg, "F", leaf), NewObject(SrcPkg, "G", decl.typ)>>))

\* types.NewInterfaceType
BuildInterface ==
    \/ /\ decl.typ.kind = "Signature"
       /\ Built(InterfaceOf(<<NewObject(SrcPkg, "M", decl.typ)>>, <<>>))
    \/ Built(InterfaceOf(<<>>, <<decl.typ>>))

\* types.NewNamed with type parameters, types.Instantiate
BuildNamed ==
    \/ Built(NamedOf(SrcPkg, <<TypeParam(decl.typ)>>, <<>>))
    \/ Built(NamedOf(SrcPkg, <<TypeParam(Basic)>>, <<decl.typ>>))

\* a constructor makes a symbol of the object obj with a new registry
Constructed(op, obj) ==
    /\ ret.op = "none"
    /\ imp' = newObjectResolver(obj, NewImporter)
    /\ ret' = [op |-> op, arg |-> obj, val |-> EmptyMap, panicked |-> FALSE]
    /\ hist' = Registered(NewImporter, imp', NoHist)
    /\ UNCHANGED <<lockVars, tabVars>>

\* NewConst(c, imp): a constant is of a basic or of a named type
NewConst ==
    /\ decl.typ.kind \in {"Basic", "Named"}
    /\ Constructed("NewConst", NewObject(SrcPkg, "A", decl.typ))

\* NewVar(v, imp)
NewVar == Constructed("NewVar", NewObject(SrcPkg, "A", decl.typ))

\* NewFunc(fn, imp): the type of a function is a signature
NewFunc ==
    /\ decl.typ.kind = "Signature"
    /\ Constructed("NewFunc", NewObject(SrcPkg, "A", decl.typ))

\* NewTypeName(tn, imp)
NewTypeName == Constructed("NewTypeName", NewObject(SrcPkg, "A", decl.typ))

WalkInit ==
    /\ imp = NewImporter
    /\ ret = NoCall
    /\ hist = NoHist
    /\ mu = Unlocked
    /\ pc = [g \in Procs |-> "idle"]
    /\ call = [g \in Procs |-> Idle]
    /\ constants = <<>>
    /\ variables = <<>>
    /\ functions = <<>>
    /\ types = <<>>
    /\ names = EmptyMap
    /\ onDuplicate = DefaultOnDuplicate
    /\ conf = NilConfig
    /\ decl \in {[typ |-> t, depth |-> 0] : t \in Leaves}
    /\ tsig = NewSignature(SignatureOf(<<>>, <<>>))
    /\ amu = Unlocked
    /\ fs = NoFile
    /\ walk = NoWalk

WalkNext ==
    \/ BuildElem
    \/ BuildMap
    \/ BuildSignature
    \/ BuildStruct
    \/ BuildInterface
    \/ BuildNamed
    \/ NewConst
    \/ NewVar
    \/ NewFunc
    \/ NewTypeName

SpecWalk == WalkInit /\ [][WalkNext]_vars

-----------------------------------------------------------------------------
\* The wrapper of a function's signature: goroutines call the methods of one
\* Func while packages are still being added to its importer.

\* the packages added meanwhile
WrapPackages ==
    {NewPackage(PathOf(1), "json"), NewPackage(PathOf(2), "json_")}

\* the parameters named ns of a function declared in SrcPkg; the last one
\* is a slice when the function is variadic
WrapParams(ns, variadic) ==
    [i \in DOMAIN ns |->
        NewObject(SrcPkg, ns[i],
                  IF variadic /\ i = Len(ns) THEN Slice(Basic) ELSE Basic)]

WrapParamNames == {<<>>, <<"json">>, <<"a", "json">>, <<"json", "json_">>}

WrapResultNames == {<<>>, <<"json">>}

\* the signatures of the functions
WrapSignatures ==
    {sig \in {NewSignatureType(<<>>, WrapParams(ns, v), WrapParams(rs, FALSE), v) :
                ns \in WrapParamNames, rs \in WrapResultNames, v \in BOOLEAN} :
        sig.variadic => Len(sig.params) > 0}

WrapMethods == {"Wrapper", "CallArgs", "WriteSignature", "Returns"}

\* what a method has not returned yet
NoResult == [op |-> "none"]

\* NewFunc(fn, imp) with a new importer
WrapInit ==
    /\ imp = NewImporter
    /\ ret = NoCall
    /\ hist = NoHist
    /\ mu = Unlocked
    /\ pc = [g \in Procs |-> "idle"]
    /\ call = [g \in Procs |-> [op |-> "none", val |-> NoResult]]
    /\ constants = <<>>
    /\ variables = <<>>
    /\ functions = <<>>
    /\ types = <<>>
    /\ names = EmptyMap
    /\ onDuplicate = DefaultOnDuplicate
    /\ conf = NilConfig
    /\ decl = NoDecl
    /\ tsig \in {NewSignature(sig) : sig \in WrapSignatures}
    /\ amu = Unlocked
    /\ fs = NoFile
    /\ walk = NoWalk

\* Importer.AddImport(p), by the owner of the importer
WrapAddImport ==
    /\ \E p \in WrapPackages : imp' = addImport(imp, p)
    /\ UNCHANGED <<pc, call, tsig, ret, hist, mu, constants, variables,
                   functions, types, names, onDuplicate, conf, decl, extVars>>

\* goroutine g calls a method of the Func: Returns reads the signature,
\* the others call fn.tsig.Wrapper() first
Invoke(g, op) ==
    /\ pc[g] = "idle"
    /\ call' = [call EXCEPT ![g] = [op |-> op, val |-> NoResult]]
    /\ pc' = [pc EXCEPT ![g] = IF op = "Returns" THEN "ret" ELSE "once"]
    /\ UNCHANGED <<imp, tsig, ret, hist, mu, constants, variables, functions,
                   types, names, onDuplicate, conf, decl, extVars>>

\* sync.Once.Do: the fast path, done is read without the mutex
OnceFast(g) ==
    /\ pc[g] = "once"
    /\ pc' = [pc EXCEPT ![g] = IF tsig.done THEN "ret" ELSE "slow"]
    /\ UNCHANGED <<imp, call, tsig, ret, hist, mu, constants, variables,
                   functions, types, names, onDuplicate, conf, decl, extVars>>

\* sync.Once.doSlow: o.m.Lock()
OnceLock(g) ==
    /\ pc[g] = "slow"
    /\ tsig.m = None
    /\ tsig' = [tsig EXCEPT !.m = g]
    /\ pc' = [pc EXCEPT ![g] = "locked"]
    /\ UNCHANGED <<imp, call, ret, hist, mu, constants, variables, functions,
                   types, names, onDuplicate, conf, decl, extVars>>

\* the function of Signature.Wrapper, run with the alias mapping res that
\* s.imp.AliasedImports() returned
onceBody(g, res) ==
    /\ imp' = res.imp
    /\ tsig' = [tsig EXCEPT !.wrapper = newWrapper(tsig.Signature, res.out),
                            !.ai = res.out]
    /\ pc' = [pc EXCEPT ![g] = "ran"]

\* sync.Once.doSlow with the mutex held: done is read again; the function
\* runs when it is still unset, otherwise the mutex is released
OnceDo(g) ==
    /\ pc[g] = "locked"
    /\ IF tsig.done
       THEN /\ tsig' = [tsig EXCEPT !.m = None]
            /\ pc' = [pc EXCEPT ![g] = "ret"]
            /\ imp' = imp
       ELSE \E paths \in sortedPaths(imp) :
                onceBody(g, aliasImports(imp, paths))
    /\ UNCHANGED <<call, ret, hist, mu, constants, variables, functions,
                   types, names, onDuplicate, conf, decl, extVars>>

\* sync.Once.doSlow: the deferred o.done.Store(1), then o.m.Unlock()
OnceDone(g) ==
    /\ pc[g] = "ran"
    /\ tsig' = [tsig EXCEPT !.done = TRUE, !.m = None]
    /\ pc' = [pc EXCEPT ![g] = "ret"]
    /\ UNCHANGED <<imp, call, ret, hist, mu, constants, variables, functions,
                   types, names, onDuplicate, conf, decl, extVars>>

\* what the method op returns once Wrapper() has returned
resultOf(op, s) ==
    CASE op = "Wrapper" -> [op |-> op, wrapper |-> s.wrapper]
      [] op = "CallArgs" -> [op |-> op, args |-> CallArgs(s)]
      [] op = "WriteSignature" -> [op |-> op, written |-> WriteSignature(s)]
      [] op = "Returns" -> [op |-> op, returns |-> Returns(s)]

\* the method returns
Result(g) ==
    /\ pc[g] = "ret"
    /\ call' = [call EXCEPT ![g].val = resultOf(call[g].op, tsig)]
    /\ pc' = [pc EXCEPT ![g] = "idle"]
    /\ UNCHANGED <<imp, tsig, ret, hist, mu, constants, variables, functions,
                   types, names, onDuplicate, conf, decl, extVars>>

WrapNext ==
    \/ WrapAddImport
    \/ \E g \in Procs : \E op \in WrapMethods : Invoke(g, op)
    \/ \E g \in Procs : OnceFast(g)
    \/ \E g \in Procs : OnceLock(g)
    \/ \E g \in Procs : OnceDo(g)
    \/ \E g \in Procs : OnceDone(g)
    \/ \E g \in Procs : Result(g)

SpecWrap == WrapInit /\ [][WrapNext]_vars

-----------------------------------------------------------------------------
\* Properties of the import registry

Injective(m) == \A p, q \in DOMAIN m : m[p] = m[q] => p = q

\* the registered paths that sort before q
Earlier(q) == {r \in DOMAIN imp.imports : Less(r, q)}

\* the registry holds exactly the packages named n1, n2, n3 at the three
\* smallest paths "1" < "11" < "2"
Holds(n1, n2, n3) ==
    /\ DOMAIN imp.imports = {PathOf(1), PathOf(2), PathOf(3)}
    /\ imp.imports[PathOf(1)].name = n1
    /\ imp.imports[PathOf(2)].name = n2
    /\ imp.imports[PathOf(3)].name = n3

\* C1: the map AliasedImports() returns has one entry for each registered path
\* and is injective, and so is the cached assignment, whatever the package
\* names are (a package may be named like the suffixed alias of another one).
C1_AliasesInjective ==
    /\ Injective(imp.aliasedImports)
    /\ ret.op = "AliasedImports" =>
          /\ DOMAIN ret.val = DOMAIN imp.imports
          /\ Injective(ret.val)

\* names "fake", "fake", "fake_2": the third package cannot keep its own name
C1_Witness ==
    /\ ret.op = "AliasedImports"
    /\ Holds("fake", "fake", "fake_2")
    /\ ret.val[PathOf(2)] = "fake_2"
    /\ ret.val[PathOf(3)] = "fake_2_2"

\* C2: the map AliasedImports() returns is the one a new registry holding the
\* same final packages computes, in whatever order the paths are visited:
\* it depends neither on the order of the AddImport calls nor on the
\* AliasedImports()/AliasOf() calls made in between.
C2_OrderIndependent ==
    ret.op = "AliasedImports" =>
        LET fresh == [NewImporter EXCEPT !.imports = imp.imports, !.toAlias = TRUE]
        IN  \A paths \in sortedPaths(fresh) :
                ret.val = aliasImports(fresh, paths).out

\* all three paths registered, the last one first, with assignments computed
\* in between (the last recomputation changed an alias)
C2_Witness ==
    /\ ret.op = "AliasedImports"
    /\ Holds("fake", "fake", "fake")
    /\ hist.newly = {PathOf(1)}
    /\ hist.moved # {}

\* C3: a package gets its own name when no smaller path was given that alias,
\* otherwise name_k for the smallest k >= 2 such that name_k is not the alias
\* of a smaller path; three packages named "fake" get fake, fake_2, fake_3.
C3_FirstFreeSuffix ==
    ret.op = "AliasedImports" =>
        /\ DOMAIN ret.val = DOMAIN imp.imports
        /\ \A q \in DOMAIN imp.imports :
              LET name == imp.imports[q].name
                  used == {ret.val[r] : r \in Earlier(q)}
              IN  IF name \notin used
                  THEN ret.val[q] = name
                  ELSE \E k \in 2..(Cardinality(used) + 2) :
                          /\ ret.val[q] = Sprintf(name, k)
                          /\ Sprintf(name, k) \notin used
                          /\ \A j \in 2..(k - 1) : Sprintf(name, j) \in used
        /\ Holds("fake", "fake", "fake") =>
              /\ ret.val[PathOf(1)] = "fake"
              /\ ret.val[PathOf(2)] = "fake_2"
              /\ ret.val[PathOf(3)] = "fake_3"

C3_Witness ==
    /\ ret.op = "AliasedImports"
    /\ Holds("fake", "fake", "fake")
    /\ ret.val[PathOf(3)] = "fake_3"

\* C4: AddImport of nil or of a package whose path is already registered does
\* not panic and changes nothing: Imports() has the same size, the package
\* first registered for the path stays, the alias map gains no entry.
C4_AddImportNoOp ==
    [][(/\ ret'.op = "AddImport"
        /\ (ret'.arg = NilPkg \/ ret'.arg.path \in DOMAIN imp.imports))
       => /\ ~ret'.panicked
          /\ Cardinality(importsList(imp')) = Cardinality(importsList(imp))
          /\ imp'.imports = imp.imports
          /\ imp'.aliasedImports = imp.aliasedImports
          /\ imp'.toAlias = imp.toAlias]_vars

\* another package object with a registered path was added after an
\* assignment was computed
C4_Witness ==
    /\ ret.op = "AddImport"
    /\ ret.arg # NilPkg
    /\ ret.arg.path \in DOMAIN imp.imports
    /\ imp.imports[ret.arg.path] # ret.arg
    /\ DOMAIN imp.aliasedImports = DOMAIN imp.imports
    /\ ~imp.toAlias

\* C5: an AliasedImports() call returns the map the call before it returned
\* when no new path was registered in between, and the assignment becomes
\* stale only by an AddImport that registers a new path.
C5_CachedIdempotent ==
    /\ [][(ret'.op = "AliasedImports" /\ hist.calls > 0) =>
              ret'.val = hist.aliased]_vars
    /\ [][(~imp.toAlias /\ imp'.toAlias) =>
              /\ ret'.op = "AddImport"
              /\ ret'.arg # NilPkg
              /\ ret'.arg.path \notin DOMAIN imp.imports]_vars

\* a second AliasedImports() call with no new path since the first
C5_Witness ==
    /\ ret.op = "AliasedImports"
    /\ hist.calls = 2
    /\ Cardinality(DOMAIN ret.val) >= 2

\* the one path the last recomputation aliased for the first time
NewPath == CHOOSE p \in hist.newly : TRUE

\* C6 as stated: a recomputation after one new package changes the alias only
\* of packages that have the name of the new package and a path sorting after
\* the new path.
C6_OnlySameNameMoves ==
    Cardinality(hist.newly) = 1 =>
        \A q \in hist.moved :
            /\ imp.imports[q].name = imp.imports[NewPath].name
            /\ Less(NewPath, q)

\* C6 (amended): a recomputation after one new package changes the alias only
\* of packages whose path sorts after the new path, whatever their name; for
\* "fake" at the first and third path, "fake" added at the second path moves
\* the third from fake_2 to fake_3.
C6_OnlyLaterPathsMove ==
    /\ Cardinality(hist.newly) = 1 =>
          \A q \in hist.moved : Less(NewPath, q)
    /\ (/\ Holds("fake", "fake", "fake")
        /\ hist.newly = {PathOf(2)}
        /\ hist.added = {})
       => /\ hist.moved = {PathOf(3)}
          /\ imp.aliasedImports[PathOf(2)] = "fake_2"
          /\ imp.aliasedImports[PathOf(3)] = "fake_3"

C6_Witness ==
    /\ Holds("fake", "fake", "fake")
    /\ hist.newly = {PathOf(2)}
    /\ hist.moved = {PathOf(3)}
    /\ ~imp.toAlias
    /\ imp.aliasedImports[PathOf(3)] = "fake_3"

\* C7: AliasOf(path) returns the alias AliasedImports() gives for the path
\* over the packages registered at the time of the call, and "" for a path
\* that is not registered, also when no assignment was ever computed.
C7_AliasOfAgrees ==
    /\ [](ret.op = "AliasOf" /\ ret.arg \notin DOMAIN imp.imports => ret.val = "")
    /\ [][(ret.op = "AliasOf" /\ ret'.op = "AliasedImports") =>
              ret.val = MapGet(ret'.val, ret.arg)]_vars
    /\ [][(ret.op = "AliasedImports" /\ ret'.op = "AliasOf") =>
              ret'.val = MapGet(ret.val, ret'.arg)]_vars

\* AliasOf had to recompute a stale assignment to answer
C7_Witness ==
    /\ ret.op = "AliasOf"
    /\ ret.val = "fake_2"
    /\ hist.newly # {}
    /\ hist.calls = 0
    /\ Cardinality(DOMAIN imp.imports) >= 2

-----------------------------------------------------------------------------
\* Properties of the lock of the registry

\* the goroutine is inside a method, holding the lock
Inside(g) == pc[g] = "held"

\* the goroutine is inside a read: Imports, or AliasOf on an assignment that
\* is up to date
CachedRead(g) ==
    \/ call[g].op = "Imports"
    \/ call[g].op = "AliasOf" /\ ~imp.toAlias

\* no other goroutine is inside the registry
Alone(g) == \A h \in Procs \ {g} : ~Inside(h)

\* C8 as stated: while a goroutine is inside Imports() or inside AliasOf() on
\* an up-to-date assignment, another goroutine that called Imports() can enter
\* (no writer waiting); AddImport and recomputation exclude every other call.
C8_CachedAliasOfShared ==
    /\ \A g, h \in Procs :
          (/\ g # h
           /\ Inside(g) /\ CachedRead(g)
           /\ pc[h] = "enter" /\ call[h].op = "Imports"
           /\ \A k \in Procs : pc[k] # "drain")
          => ENABLED RLock(h)
    /\ \A g \in Procs :
          (Inside(g) /\ ~CachedRead(g)) => Alone(g)

\* C8 (amended): Imports() calls run concurrently with one another (a caller
\* of Imports() enters while another is inside, unless a writer is waiting);
\* AddImport, AliasedImports and AliasOf, on an up-to-date assignment or not,
\* exclude every other call.
C8_OnlyImportsShared ==
    /\ \A g, h \in Procs :
          (/\ g # h
           /\ Inside(g) /\ call[g].op = "Imports"
           /\ pc[h] = "enter" /\ call[h].op = "Imports"
           /\ \A k \in Procs : pc[k] # "drain")
          => ENABLED RLock(h)
    /\ \A g \in Procs :
          (Inside(g) /\ call[g].op # "Imports") => Alone(g)

\* AliasOf is inside on an up-to-date assignment and keeps a caller of
\* Imports() waiting
C8_Witness ==
    \E g, h \in Procs :
        /\ Inside(g) /\ call[g].op = "AliasOf" /\ ~imp.toAlias
        /\ PathOf(1) \in DOMAIN imp.aliasedImports
        /\ pc[h] = "enter" /\ call[h].op = "Imports"

-----------------------------------------------------------------------------
\* Properties of the symbol table

\* the sequence of a kind in the table a
SeqOf(a, id) ==
    CASE id = constantId -> a.constants
      [] id = variableId -> a.variables
      [] id = functionId -> a.functions
      [] id = typeId -> a.types

\* the symbols of a kind that are named n in the table a, in their order
Symbols(a, id, n) == SelectSeq(SeqOf(a, id), LAMBDA x : x.name = n)

AddOps == {AddOp(id) : id \in ObjectIds}

KindOfOp(op) == CHOOSE id \in ObjectIds : AddOp(id) = op

\* the last of the objects os that is named n
LastNamed(os, n) ==
    LET last == CHOOSE i \in DOMAIN os :
                    /\ os[i].name = n
                    /\ \A j \in DOMAIN os : os[j].name = n => j <= i
    IN  os[last]

Conflict(os, i) ==
    \/ os[i].name \in DOMAIN names
    \/ \E j \in 1..(i - 1) : os[j].name = os[i].name

LiveSymbols(n) ==
    Len(Symbols(Aliaser, constantId, n)) + Len(Symbols(Aliaser, variableId, n))
        + Len(Symbols(Aliaser, functionId, n)) + Len(Symbols(Aliaser, typeId, n))

-----------------------------------------------------------------------------
\* Properties of New and of the scan

\* the exclude flag of the kind of a scope object
Excluded(cfg, kind) ==
    CASE kind = "Const" -> cfg.excludeConstants
      [] kind = "Var" -> cfg.excludeVariables
      [] kind = "Func" -> cfg.excludeFunctions
      [] kind = "TypeName" -> cfg.excludeTypes
      [] OTHER -> FALSE

ScopeKindOf(id) ==
    CASE id = constantId -> "Const"
      [] id = variableId -> "Var"
      [] id = functionId -> "Func"
      [] id = typeId -> "TypeName"

ExcludeOption(id) ==
    CASE id = constantId -> ExcludeConstants(TRUE)
      [] id = variableId -> ExcludeVariables(TRUE)
      [] id = functionId -> ExcludeFunctions(TRUE)
      [] id = typeId -> ExcludeTypes(TRUE)

\* the objects of a scope that are of a kind and are to be included by
\* what they are themselves, in the order of the scope
RECURSIVE IncludedOf(_, _, _, _)
IncludedOf(cfg, scope, id, k) ==
    IF k > Len(scope) THEN <<>>
    ELSE LET o == scope[k]
             rest == IncludedOf(cfg, scope, id, k + 1)
         IN  IF /\ o.kind = ScopeKindOf(id)
                /\ Exported(o)
                /\ o.name \notin cfg.excludedNames
                /\ ~Excluded(cfg, o.kind)
             THEN <<NewObject(o.pkg, o.name, o.typ)>> \o rest
             ELSE rest

\* New has returned a session
NewDone == ret.op = "New" /\ ret.val.err = NoError

\* the scope New has scanned
ScannedScope == ret.arg.loaded.pkgs[1].Scope

\* C13: in a session New has returned, the sequence of each kind holds the
\* scanned objects of that kind that are exported, not named in
\* exclude-names and not excluded by the flag of their own kind, and no
\* other; with the exclude flag of one kind set in addition, New returns
\* the same sequences of the other three kinds; a name in exclude-names is
\* in no sequence.
C13_FiltersIndependent ==
    NewDone =>
        /\ \A J \in ObjectIds :
                SeqOf(Aliaser, J) = IncludedOf(conf, ScannedScope, J, 1)
        /\ \A K \in ObjectIds :
                LET r == New(ret.arg.c, ret.arg.opts \o <<ExcludeOption(K)>>,
                             ret.arg.loaded)
                IN  /\ r.err = NoError
                    /\ SeqOf(r.a, K) = <<>>
                    /\ \A J \in ObjectIds \ {K} : SeqOf(r.a, J) = SeqOf(Aliaser, J)
        /\ \A J \in ObjectIds :
                \A k \in DOMAIN SeqOf(Aliaser, J) :
                    SeqOf(Aliaser, J)[k].name \notin conf.excludedNames

\* New has scanned a function A and a constant B with the functions
\* excluded and no name excluded: the constant is in the table
C13_Witness ==
    /\ NewDone
    /\ conf.excludeFunctions
    /\ conf.excludedNames = {}
    /\ ScannedScope[1].kind = "Func"
    /\ ScannedScope[2].kind = "Const"
    /\ functions = <<>>
    /\ Len(constants) = 1

\* the session variables are those of no session
NoSession ==
    /\ imp = NewImporter
    /\ constants = <<>>
    /\ variables = <<>>
    /\ functions = <<>>
    /\ types = <<>>
    /\ names = EmptyMap

\* C14: New returns ErrNilConfig for a nil configuration, otherwise
\* ErrEmptyTarget for an empty target, otherwise ErrEmptyPattern for an
\* empty pattern, and none of them otherwise; with one of these errors it
\* returns no Aliaser, has not loaded the package, has made no session
\* state and has left the configuration as it was.
C14_ConfigErrors ==
    ret.op = "New" =>
        LET c == ret.arg.c
            e == CASE c.nil -> ErrNilConfig
                   [] c.TargetPackage = "" -> ErrEmptyTarget
                   [] c.Pattern = "" -> ErrEmptyPattern
                   [] OTHER -> NoError
        IN  IF e # NoError
            THEN /\ ret.val.err = e
                 /\ ret.val.nil
                 /\ ~ret.val.loaded
                 /\ NoSession
                 /\ conf = c
            ELSE ret.val.err \notin {ErrNilConfig, ErrEmptyTarget, ErrEmptyPattern}

\* New was called with a configuration whose target and pattern are empty
C14_Witness ==
    /\ ret.op = "New"
    /\ ~ret.arg.c.nil
    /\ ret.arg.c.TargetPackage = ""
    /\ ret.arg.c.Pattern = ""
    /\ ret.arg.opts # <<>>
    /\ ret.val.err = ErrEmptyTarget

\* New has scanned the scope of a package
Scanned ==
    /\ ret.op = "New"
    /\ ret.val.loaded
    /\ ~ret.arg.loaded.err
    /\ Len(ret.arg.loaded.pkgs) = 1
    /\ ~ret.arg.loaded.pkgs[1].Errors

\* the places of the scope whose object is exported, not named in
\* exclude-names, and of none of the four kinds
Unexpected(cfg, scope) ==
    {k \in DOMAIN scope :
        /\ Exported(scope[k])
        /\ scope[k].name \notin cfg.excludedNames
        /\ scope[k].kind \notin {"Const", "Var", "Func", "TypeName"}}

\* C15: the scan returns an error exactly when the scope has an exported
\* object, not named in exclude-names, of none of the four kinds, whatever
\* the exclude flags are; it has then added no object that comes after the
\* first such object; an unexported object of any kind is no error.
C15_UnexpectedObject ==
    Scanned =>
        LET bad == Unexpected(conf, ScannedScope)
            r == addPkgObjects(NewAliaser(conf), ret.arg.loaded.pkgs[1])
        IN  /\ ret.val.err = IF bad = {} THEN NoError ELSE ErrObjectType
            /\ ret.val.nil <=> bad # {}
            /\ r.err = ret.val.err
            /\ \A k \in DOMAIN ScannedScope :
                    (\E b \in bad : b <= k) =>
                        ScannedScope[k].name \notin DOMAIN r.a.names

\* the scan has met an exported label after a constant, with the constants
\* excluded
C15_Witness ==
    /\ Scanned
    /\ ScannedScope[1].kind = "Const"
    /\ ScannedScope[2].kind = "Label"
    /\ ScannedScope[3].kind = "Label"
    /\ conf.excludeConstants
    /\ ret.val.err = ErrObjectType

-----------------------------------------------------------------------------
\* Properties of the symbol constructors

Constructors == {"NewConst", "NewVar", "NewFunc", "NewTypeName"}

RECURSIVE NamedPkgs(_)
\* the owning packages of the named types that are reachable from the type
\* t through pointers, slices, arrays, channels, map keys and elements,
\* parameters and results, fields, methods and embedded types, constraints
\* of type parameters and type arguments
NamedPkgs(t) ==
    CASE t.kind = "Named" ->
            {t.pkg}
            \cup UNION {NamedPkgs(t.tparams[i].constraint) : i \in DOMAIN t.tparams}
            \cup UNION {NamedPkgs(t.targs[i]) : i \in DOMAIN t.targs}
      [] t.kind \in ElemKinds -> NamedPkgs(t.elem)
      [] t.kind = "Map" -> NamedPkgs(t.key) \cup NamedPkgs(t.elem)
      [] t.kind = "Signature" ->
            UNION {NamedPkgs(t.params[i].typ) : i \in DOMAIN t.params}
            \cup UNION {NamedPkgs(t.results[i].typ) : i \in DOMAIN t.results}
            \cup UNION {NamedPkgs(t.tparams[i].constraint) : i \in DOMAIN t.tparams}
      [] t.kind = "Struct" ->
            UNION {NamedPkgs(t.fields[i].typ) : i \in DOMAIN t.fields}
      [] t.kind = "Interface" ->
            UNION {NamedPkgs(t.methods[i].typ) : i \in DOMAIN t.methods}
            \cup UNION {NamedPkgs(t.embeddeds[i]) : i \in DOMAIN t.embeddeds}
      [] OTHER -> {}

\* the package p is registered
IsRegistered(p) == p.path \in DOMAIN imp.imports /\ imp.imports[p.path] = p

\* C16: when a symbol constructor has returned, the owning package of every
\* named type reachable from the type of the declaration is registered.
C16_WalkerComplete ==
    ret.op \in Constructors =>
        \A p \in NamedPkgs(ret.arg.typ) : IsRegistered(p)

\* a symbol was made of a declaration whose type reaches two packages
\* through MaxDepth nested type constructors
C16_Witness ==
    /\ ret.op \in Constructors
    /\ decl.depth = MaxDepth
    /\ {JsonPkg, Json2Pkg} \subseteq NamedPkgs(ret.arg.typ)
    /\ IsRegistered(JsonPkg)
    /\ IsRegistered(Json2Pkg)

\* objectResolver.PackageAlias of a symbol made of obj
PackageAlias(obj) ==
    aliasOf(imp, obj.pkg.path, CHOOSE paths \in sortedPaths(imp) : TRUE).out

\* C17: when a symbol constructor has returned, the owning package of the
\* declaration is registered and PackageAlias() of the symbol is not the
\* alias of an unknown package.
C17_OwnerRegistered ==
    ret.op \in Constructors =>
        /\ IsRegistered(ret.arg.pkg)
        /\ PackageAlias(ret.arg) # ""

-----------------------------------------------------------------------------
\* Properties of the wrapper of a signature

\* the names ns as a call passes them on: the last one is spread when the
\* function is variadic
Spread(ns, variadic) ==
    [i \in DOMAIN ns |->
        IF variadic /\ i = Len(ns) THEN ns[i] \o "..." ELSE ns[i]]

\* C18: CallArgs returns the parameter names of the wrapper signature in
\* order, joined by ", ": they are the names WriteSignature writes (the ones
\* it has returned to any goroutine and the ones it would write now), one per
\* parameter of the function, with "..." after the last name exactly when
\* the function is variadic, and the empty string when there is no
\* parameter; Returns reports true exactly when there is a result.
C18_CallArgsMatch ==
    \A g \in Procs :
        /\ call[g].val.op = "CallArgs" =>
            /\ Len(tsig.Signature.params) = 0 => call[g].val.args = ""
            /\ Len(WriteSignature(tsig).params) = Len(tsig.Signature.params)
            /\ call[g].val.args =
                Join(Spread(WriteSignature(tsig).params,
                            tsig.Signature.variadic), ", ", 1)
            /\ \A h \in Procs :
                call[h].val.op = "WriteSignature" =>
                    call[g].val.args =
                    Join(Spread(call[h].val.written.params,
                                tsig.Signature.variadic), ", ", 1)
        /\ call[g].val.op = "Returns" =>
            (call[g].val.returns <=> Len(tsig.Signature.results) >= 1)

\* a variadic function with a renamed last parameter: one goroutine has its
\* call arguments, another its written signature
C18_Witness ==
    \E g, h \in Procs :
        /\ call[g].val = [op |-> "CallArgs", args |-> "a, json_..."]
        /\ call[h].val.op = "WriteSignature"
        /\ call[h].val.written.params = <<"a", "json_">>
        /\ tsig.Signature.params[2].name = "json"

\* the tuple r is the tuple t as the claim aliases it against the list
\* aliases: as long, of the same types, with no name of the list, the names
\* of the list suffixed with one underscore and the other variables kept
AliasedAs(aliases, t, r) ==
    /\ Len(r) = Len(t)
    /\ \A i \in DOMAIN t :
        /\ r[i].typ = t[i].typ
        /\ r[i].name \notin aliases
        /\ t[i].name \in aliases => r[i].name = t[i].name \o "_"
        /\ t[i].name \notin aliases => r[i] = t[i]

\* C19: the tuples NewAliasedTuple returns for the parameters and for the
\* results have the length and the types of the given tuples and no variable
\* name that is in the alias list: a name of the list has one underscore
\* appended, the other variables are unchanged.
C19_NoAliasName ==
    tsig.done =>
        /\ AliasedAs(MapValues(tsig.ai), tsig.Signature.params,
                     tsig.wrapper.params)
        /\ AliasedAs(MapValues(tsig.ai), tsig.Signature.results,
                     tsig.wrapper.results)

\* the names of the variables of a tuple
TupleNames(t) == {t[i].name : i \in DOMAIN t}

\* every call of Wrapper() that has returned has returned the wrapper the
\* signature holds
WrapperReturned ==
    \A g \in Procs :
        call[g].val.op = "Wrapper" =>
            tsig.done /\ call[g].val.wrapper = tsig.wrapper

\* a step leaves a computed wrapper alone, whatever it adds to the registry
WrapperKept ==
    tsig.done =>
        tsig'.done /\ tsig'.wrapper = tsig.wrapper /\ tsig'.ai = tsig.ai

\* the wrapper is the one made from the alias mapping of its first call
WrapperFirst ==
    tsig.done => tsig.wrapper = newWrapper(tsig.Signature, tsig.ai)

\* a wrapper made from the alias mapping the registry still has carries no
\* parameter or result name that is one of these aliases
WrapperClear ==
    (tsig.done /\ ~imp.toAlias /\ imp.aliasedImports = tsig.ai) =>
        (TupleNames(tsig.wrapper.params) \cup TupleNames(tsig.wrapper.results))
            \cap MapValues(imp.aliasedImports) = {}

\* C20: the wrapper is computed once, from the alias mapping of the first
\* call of Wrapper(); every later call, from any goroutine and whatever was
\* added in between, returns that wrapper; so a wrapper first requested when
\* the registry is fully populated has no parameter or result name equal to
\* a final import alias, and one requested earlier is not recomputed.
C20_WrapperOnce ==
    /\ [](WrapperReturned /\ WrapperFirst)
    /\ [][WrapperKept]_vars
    /\ []WrapperClear

-----------------------------------------------------------------------------
\* The session called by several goroutines: AddConstants, AddVariables,
\* AddFunctions and AddTypes take a.mu.Lock(), the accessors and Generate
\* a.mu.RLock(); AddImport is the method of the embedded *importer.Importer
\* and takes the lock of the registry only.

\* the package a caller registers through the embedded importer: its name is
\* the name of the loaded package and its path sorts before
SessionPkg == NewPackage(PathOf(1), "pkg")

\* a policy value that is none of Skip, Replace and Panic
UnexpectedOnDuplicate == 10

\* an object id that is none of the four kinds
UnexpectedObjectId == 10

\* the objects the goroutines add
SessionObjects == {NewObject(SrcPkg, "A", Basic)}

\* the call of a goroutine and its local variables: k counts the objects of
\* an add method and the kinds of the template, ai is the alias mapping the
\* import block was written from, seq the symbols the accessor returned,
\* quals the aliases the symbols were qualified with
SessionCall(op, id, os) ==
    [op |-> op, id |-> id, os |-> os, k |-> 1, ai |-> EmptyMap, seq |-> <<>>,
     quals |-> {}, panicked |-> FALSE]

SessionCalls ==
    {SessionCall("Add", id, <<o>>) : id \in ObjectIds, o \in SessionObjects}
    \cup {SessionCall("Read", id, <<>>) : id \in ObjectIds}
    \cup {SessionCall("Generate", constantId, <<>>)}

SessionIdle == SessionCall("none", constantId, <<>>)

\* the session New returned for a package with no exported object, under
\* any value of config.onDuplicate
SessionInit ==
    /\ imp = addImport(NewImporter, SrcPkg)
    /\ ret = NoCall
    /\ hist = NoHist
    /\ mu = Unlocked
    /\ pc = [g \in Procs |-> "idle"]
    /\ call = [g \in Procs |-> SessionIdle]
    /\ constants = <<>>
    /\ variables = <<>>
    /\ functions = <<>>
    /\ types = <<>>
    /\ names = EmptyMap
    /\ onDuplicate \in Policies \cup {UnexpectedOnDuplicate}
    /\ conf = NilConfig
    /\ decl = NoDecl
    /\ tsig = NewSignature(SignatureOf(<<>>, <<>>))
    /\ amu = Unlocked
    /\ fs = NoFile
    /\ walk = NoWalk

\* what no action of the session touches
sessionFrame == <<ret, hist, mu, onDuplicate, conf, decl, tsig, fs, walk>>

\* the table is left as it is
tableFrame == <<constants, variables, functions, types, names>>

\* the fields of the Aliaser a become the state
store(a) ==
    /\ constants' = a.constants
    /\ variables' = a.variables
    /\ functions' = a.functions
    /\ types' = a.types
    /\ names' = a.names
    /\ imp' = a.Importer

\* Importer.AddImport(p) called on the Aliaser, which embeds the importer
SessionAddImport ==
    /\ imp' = addImport(imp, SessionPkg)
    /\ UNCHANGED <<pc, call, amu, tableFrame, sessionFrame>>

\* a goroutine calls an add method: a.mu.Lock(), first half, the writer
\* announces itself
SessionLock(g, c) ==
    /\ pc[g] = "idle"
    /\ c.op = "Add"
    /\ amu.w = None
    /\ amu' = [amu EXCEPT !.w = g]
    /\ call' = [call EXCEPT ![g] = c]
    /\ pc' = [pc EXCEPT ![g] = "drain"]
    /\ UNCHANGED <<imp, tableFrame, sessionFrame>>

\* a.mu.Lock(), second half: the readers have left
SessionLocked(g) ==
    /\ pc[g] = "drain"
    /\ amu.readers = {}
    /\ pc' = [pc EXCEPT ![g] = "name"]
    /\ UNCHANGED <<imp, call, amu, tableFrame, sessionFrame>>

\* the deferred a.mu.Unlock() and the return of an add method
unlocked(g) ==
    /\ amu' = [amu EXCEPT !.w = None]
    /\ pc' = [pc EXCEPT ![g] = "idle"]
    /\ call' = [call EXCEPT ![g] = SessionIdle]

\* the call of addObjectName for the k-th object has returned n: a panic
\* ends the call, a skipped object is passed over
named(g, n) ==
    /\ store(n.a)
    /\ IF n.a.panicked
       THEN unlocked(g)
       ELSE /\ amu' = amu
            /\ pc' = [pc EXCEPT ![g] = IF n.skip THEN "name" ELSE "append"]
            /\ call' = [call EXCEPT ![g].k = IF n.skip THEN @ + 1 ELSE @]

\* the loop of an add method: addObjectName for the next object, or the end
\* of the loop
SessionName(g) ==
    /\ pc[g] = "name"
    /\ IF call[g].k > Len(call[g].os)
       THEN unlocked(g) /\ UNCHANGED <<imp, tableFrame>>
       ELSE named(g, addObjectName(Aliaser, call[g].os[call[g].k], call[g].id))
    /\ UNCHANGED sessionFrame

\* what addConstant, addVariable, addFunction and addType do when
\* addObjectName has not skipped the object
appendObject(a, o, id) ==
    CASE id = constantId ->
            [a EXCEPT !.constants = Append(@, o),
                      !.Importer = addImport(newObjectResolver(o, @), o.pkg)]
      [] id = variableId ->
            [a EXCEPT !.variables = Append(@, o),
                      !.Importer = newObjectResolver(o, addImport(@, o.pkg))]
      [] id = functionId ->
            [a EXCEPT !.functions = Append(@, o),
                      !.Importer = newObjectResolver(o, addImport(@, o.pkg))]
      [] id = typeId ->
            [a EXCEPT !.types = Append(@, o),
                      !.Importer = newObjectResolver(o, addImport(@, o.pkg))]

\* the symbol of the k-th object is appended and its packages registered
SessionAppend(g) ==
    /\ pc[g] = "append"
    /\ store(appendObject(Aliaser, call[g].os[call[g].k], call[g].id))
    /\ call' = [call EXCEPT ![g].k = @ + 1]
    /\ pc' = [pc EXCEPT ![g] = "name"]
    /\ UNCHANGED <<amu, sessionFrame>>

\* a plausible slip: the accessors read without the lock
readableUnlocked(m) == TRUE

\* a.mu.RLock() returns when no writer holds the lock or waits for it
readable(m) == m.w = None

\* a goroutine calls an accessor or Generate: a.mu.RLock()
SessionRLock(g, c) ==
    /\ pc[g] = "idle"
    /\ c.op # "Add"
    /\ readable(amu)
    /\ amu' = [amu EXCEPT !.readers = @ \cup {g}]
    /\ call' = [call EXCEPT ![g] = c]
    /\ pc' = [pc EXCEPT ![g] = IF c.op = "Read" THEN "read" ELSE "base"]
    /\ UNCHANGED <<imp, tableFrame, sessionFrame>>

\* the deferred a.mu.RUnlock() and the return of an accessor or of Generate
runlocked(g) ==
    /\ amu' = [amu EXCEPT !.readers = @ \ {g}]
    /\ pc' = [pc EXCEPT ![g] = "idle"]
    /\ call' = [call EXCEPT ![g] = SessionIdle]

\* Constants(), Variables(), Functions() or Types() with the read lock held:
\* the sequence is read and returned
SessionRead(g) ==
    /\ pc[g] = "read"
    /\ runlocked(g)
    /\ UNCHANGED <<imp, tableFrame, sessionFrame>>

\* template "base": the import block is written from $.AliasedImports
GenerateBase(g) ==
    /\ pc[g] = "base"
    /\ \E paths \in sortedPaths(imp) :
        /\ imp' = aliasImports(imp, paths).imp
        /\ call' = [call EXCEPT ![g].ai = aliasImports(imp, paths).out]
    /\ pc' = [pc EXCEPT ![g] = "with"]
    /\ UNCHANGED <<amu, tableFrame, sessionFrame>>

\* template "alias": {{ with $.Constants }} and the like call the accessor
\* of the k-th kind, which takes the read lock again; an empty sequence
\* skips the kind
GenerateWith(g) ==
    /\ pc[g] = "with"
    /\ IF call[g].k > typeId
       THEN runlocked(g)
       ELSE /\ readable(amu)
            /\ amu' = amu
            /\ call' = [call EXCEPT ![g].k = IF SeqOf(Aliaser, call[g].k) = <<>>
                                            THEN @ + 1 ELSE @]
            /\ pc' = [pc EXCEPT ![g] = IF SeqOf(Aliaser, call[g].k) = <<>>
                                       THEN "with" ELSE "range"]
    /\ UNCHANGED <<imp, tableFrame, sessionFrame>>

\* templates "constants", "variables", "functions" and "types": the
\* accessor is called again for the symbols to range over
GenerateRange(g) ==
    /\ pc[g] = "range"
    /\ readable(amu)
    /\ call' = [call EXCEPT ![g].seq = SeqOf(Aliaser, call[g].k)]
    /\ pc' = [pc EXCEPT ![g] = "qualify"]
    /\ UNCHANGED <<imp, amu, tableFrame, sessionFrame>>

\* the aliases {{ $.PackageAlias }} writes for the symbols of s, given the
\* registry r
qualifiers(r, s) ==
    {<<s[i].pkg.path, MapGet(r.aliasedImports, s[i].pkg.path)>> : i \in DOMAIN s}

\* the symbols are written, each qualified by PackageAlias, that is by
\* AliasOf(pkg) of the embedded importer
GenerateQualify(g) ==
    /\ pc[g] = "qualify"
    /\ \E paths \in sortedPaths(imp) :
        /\ imp' = aliasImports(imp, paths).imp
        /\ call' = [call EXCEPT ![g].quals = @ \cup qualifiers(imp', call[g].seq),
                                ![g].k = @ + 1]
    /\ pc' = [pc EXCEPT ![g] = "with"]
    /\ UNCHANGED <<amu, tableFrame, sessionFrame>>

\* the steps of goroutine g inside a call
SessionStep(g) ==
    \/ SessionLocked(g)
    \/ SessionName(g)
    \/ SessionAppend(g)
    \/ SessionRead(g)
    \/ GenerateBase(g)
    \/ GenerateWith(g)
    \/ GenerateRange(g)
    \/ GenerateQualify(g)

SessionNext ==
    \/ SessionAddImport
    \/ \E g \in Procs : \E c \in SessionCalls : SessionLock(g, c)
    \/ \E g \in Procs : \E c \in SessionCalls : SessionRLock(g, c)
    \/ \E g \in Procs : SessionStep(g)

SpecSession == SessionInit /\ [][SessionNext]_vars

\* the scheduler runs every goroutine that is inside a call and not blocked;
\* nothing makes a goroutine begin a call
SpecSessionLive ==
    /\ SessionInit
    /\ [][SessionNext]_vars
    /\ \A g \in Procs : WF_vars(SessionStep(g))

-----------------------------------------------------------------------------
\* GenerateFile and OpenFileWithReset: the output file and the failures of
\* the operating system, of the template and of the formatter

\* a file of the given content, and the path no file is at
FileOf(data) == [exists |-> TRUE, data |-> data]
NoSuchFile == [exists |-> FALSE, data |-> <<>>]

\* the contents a file may have before the call
RECURSIVE Contents(_)
Contents(l) ==
    IF l = 0 THEN {<<>>}
    ELSE Contents(l - 1) \cup
         {Append(d, b) : d \in {c \in Contents(l - 1) : Len(c) = l - 1},
                         b \in {"a", "b"}}

Files == {NoSuchFile} \cup {FileOf(d) : d \in Contents(MaxFileLen)}

\* the formatted source generate writes
Output == <<"x", "y">>

\* which calls fail: mkdir (os.MkdirAll), lstat (os.Lstat), open (openFile),
\* read (bak.ReadFrom), seek and truncate (seekAndTruncate in
\* OpenFileWithReset), gen (generate: "execute", "format", "write" or none)
\* and wrote (the bytes a failing Write has written), remove (os.Remove),
\* reseek and retruncate (seekAndTruncate in the reset function), restore
\* (bak.WriteTo) and restored (the bytes a failing WriteTo has written)
Faults ==
    [mkdir : BOOLEAN, lstat : BOOLEAN, open : BOOLEAN, read : BOOLEAN,
     seek : BOOLEAN, truncate : BOOLEAN,
     gen : {"none", "execute", "format", "write"}, wrote : 0..Len(Output),
     remove : BOOLEAN, reseek : BOOLEAN, retruncate : BOOLEAN,
     restore : BOOLEAN, restored : 0..MaxFileLen]

\* a plausible slip: the file is not truncated before it is written again
seekAndTruncateSeeksOnly(file, seekFails, truncateFails) ==
    IF seekFails THEN [file |-> file, err |-> "seek file"]
    ELSE [file |-> file, err |-> NoError]

\* seekAndTruncate(f)
seekAndTruncate(file, seekFails, truncateFails) ==
    CASE seekFails -> [file |-> file, err |-> "seek file"]
      [] truncateFails -> [file |-> file, err |-> "truncate file"]
      [] OTHER -> [file |-> FileOf(<<>>), err |-> NoError]

\* what OpenFileWithReset returns: the file f, the reset function (nil, the
\* one that removes the file or the one that restores the content bak) and
\* the error; file is the file on disk afterwards
Opened(file, f, reset, bak, err) ==
    [file |-> file, f |-> f, reset |-> reset, bak |-> bak, err |-> err]

\* OpenFileWithReset, from the truncation on: the file existed and bak holds
\* its content; t is what seekAndTruncate returned
openTruncated(file, t) ==
    IF t.err # NoError
    THEN Opened(t.file, "nil", "nil", <<>>, t.err)
    ELSE Opened(t.file, "f", "restore", file.data, NoError)

\* OpenFileWithReset(name)
OpenFileWithReset(file, x) ==
    CASE x.lstat -> Opened(file, "nil", "nil", <<>>, "exists")
      [] x.open -> Opened(file, "nil", "nil", <<>>, "open")
      [] ~file.exists -> Opened(FileOf(<<>>), "f", "remove", <<>>, NoError)
      [] x.read -> Opened(file, "nil", "nil", <<>>, "read")
      [] OTHER -> openTruncated(file, seekAndTruncate(file, x.seek, x.truncate))

\* Aliaser.generate(wr): the template is executed and the source formatted
\* in memory, then written with one Write
generate(file, x) ==
    CASE x.gen = "execute" -> [file |-> file, err |-> "execute"]
      [] x.gen = "format" -> [file |-> file, err |-> "format"]
      [] x.gen = "write" ->
            [file |-> FileOf(file.data \o SubSeq(Output, 1, x.wrote)),
             err |-> "write"]
      [] OTHER -> [file |-> FileOf(file.data \o Output), err |-> NoError]

\* the reset function of OpenFileWithReset, from the rewrite on; t is what
\* seekAndTruncate returned
restoreTruncated(bak, x, t) ==
    CASE t.err # NoError -> [file |-> t.file, err |-> "restore"]
      [] x.restore ->
            [file |-> FileOf(t.file.data \o
                             SubSeq(bak, 1, IF x.restored < Len(bak)
                                            THEN x.restored ELSE Len(bak))),
             err |-> "restore"]
      [] OTHER -> [file |-> FileOf(t.file.data \o bak), err |-> NoError]

\* the reset function OpenFileWithReset returned, called on the file
reset(o, file, x) ==
    IF o.reset = "remove"
    THEN IF x.remove THEN [file |-> file, err |-> "remove"]
         ELSE [file |-> NoSuchFile, err |-> NoError]
    ELSE restoreTruncated(o.bak, x,
                          seekAndTruncate(file, x.reseek, x.retruncate))

\* what GenerateFile leaves: the file on disk, what OpenFileWithReset
\* returned to it, its error and the error of the reset function
Generated(file, o, err, rerr) ==
    [file |-> file, open |-> o, err |-> err, rerr |-> rerr]

\* OpenFileWithReset has not been called
NotOpened(file) == Opened(file, "nil", "nil", <<>>, "not called")

\* GenerateFile after generate has returned g: the reset on an error
generateReturned(o, g, x) ==
    IF g.err = NoError
    THEN Generated(g.file, o, NoError, NoError)
    ELSE Generated(reset(o, g.file, x).file, o, "generate",
                   reset(o, g.file, x).err)

\* GenerateFile after OpenFileWithReset has returned o
generateOpened(o, x) ==
    IF o.err # NoError
    THEN Generated(o.file, o, o.err, NoError)
    ELSE generateReturned(o, generate(o.file, x), x)

\* Aliaser.GenerateFile(name)
GenerateFile(file, x) ==
    IF x.mkdir
    THEN Generated(file, NotOpened(file), "create directory", NoError)
    ELSE generateOpened(OpenFileWithReset(file, x), x)

\* a session and the file at the path the caller will name
FileInit ==
    /\ imp = NewImporter
    /\ ret = NoCall
    /\ hist = NoHist
    /\ mu = Unlocked
    /\ pc = [g \in Procs |-> "idle"]
    /\ call = [g \in Procs |-> Idle]
    /\ constants = <<>>
    /\ variables = <<>>
    /\ functions = <<>>
    /\ types = <<>>
    /\ names = EmptyMap
    /\ onDuplicate = DefaultOnDuplicate
    /\ conf = NilConfig
    /\ decl = NoDecl
    /\ tsig = NewSignature(SignatureOf(<<>>, <<>>))
    /\ amu = Unlocked
    /\ fs \in {[pc |-> "idle", before |-> f,
                ret |-> Generated(f, NotOpened(f), NoError, NoError)] :
               f \in Files}
    /\ walk = NoWalk

\* a.GenerateFile(name) is called and returns, under the failures x
FileGenerate ==
    /\ fs.ret.file \in Files
    /\ \E x \in Faults :
        fs' = [pc |-> "done", before |-> fs.ret.file,
               ret |-> GenerateFile(fs.ret.file, x)]
    /\ UNCHANGED <<regVars, lockVars, constants, variables, functions, types,
                   names, onDuplicate, conf, decl, tsig, amu, walk>>

FileNext == FileGenerate

SpecFile == FileInit /\ [][FileNext]_vars

-----------------------------------------------------------------------------
\* The traps for development: a session whose policy is none of the three,
\* and deleteObject called with any object id, as the tests of the package
\* call it

\* the policy values outside Skip, Replace and Panic
UnexpectedPolicies == {UnexpectedOnDuplicate, OnDuplicatePanic + 1}

TrapInit ==
    /\ imp = addImport(NewImporter, SrcPkg)
    /\ ret = NoCall
    /\ hist = Registered(NewImporter, imp, NoHist)
    /\ mu = Unlocked
    /\ pc = [g \in Procs |-> "idle"]
    /\ call = [g \in Procs |-> Idle]
    /\ constants = <<>>
    /\ variables = <<>>
    /\ functions = <<>>
    /\ types = <<>>
    /\ names = EmptyMap
    /\ onDuplicate \in UnexpectedPolicies
    /\ conf = NilConfig
    /\ decl = NoDecl
    /\ tsig = NewSignature(SignatureOf(<<>>, <<>>))
    /\ amu = Unlocked
    /\ fs = NoFile
    /\ walk = NoWalk

\* a.deleteObject(o, id) has returned the Aliaser a
deleted(o, id, a) ==
    /\ store(a)
    /\ ret' = [op |-> "deleteObject", arg |-> <<o>>, val |-> id,
               panicked |-> a.panicked]
    /\ UNCHANGED <<hist, onDuplicate, conf, decl, tsig, lockVars, extVars>>

\* a.deleteObject(o, id), called from inside the package
TrapDeleteObject ==
    \E id \in ObjectIds \cup {UnexpectedObjectId} : \E o \in Objects(variableId) :
        deleted(o, id, deleteObject(Aliaser, o, id))

TrapNext ==
    \/ AddConstants
    \/ AddVariables
    \/ AddFunctions
    \/ AddTypes
    \/ TrapDeleteObject

SpecTrap == TrapInit /\ [][TrapNext]_vars

-----------------------------------------------------------------------------
\* The type walker on type graphs: a types.Type is a node, what it refers to
\* are other nodes, and a declared type is reached again from inside its own
\* underlying type. importType is run one call at a time.

\* a node: sub are the nodes the type switch of importType hands on, in its
\* order (key and element, element, parameters and results, fields, methods
\* and embedded types; for a variable or a function the node of its type),
\* tparams the type parameters, targs the type arguments, under the
\* underlying type of a named type, constraint the one of a type parameter
Node(kind, pkg, sub, tparams, targs, under, constraint) ==
    [kind |-> kind, pkg |-> pkg, sub |-> sub, tparams |-> tparams,
     targs |-> targs, under |-> under, constraint |-> constraint]

\* a node of a kind that has only sub
Sub(kind, sub) == Node(kind, NilPkg, sub, <<>>, <<>>, 0, 0)

\* a variable or a function of the loaded package whose type is node typ
ObjectNode(kind, typ) == Node(kind, SrcPkg, <<typ>>, <<>>, <<>>, 0, 0)

\* type List[T any] struct { next *List[T]; v json.Value }
\* var L List[List[int]]
ListGraph ==
    <<Node("Named", SrcPkg, <<>>, <<7>>, <<2>>, 3, 0),
      Node("Named", SrcPkg, <<>>, <<7>>, <<9>>, 3, 0),
      Sub("Struct", <<4, 10>>),
      ObjectNode("Var", 5),
      Sub("Pointer", <<6>>),
      Node("Named", SrcPkg, <<>>, <<7>>, <<7>>, 3, 0),
      Node("TypeParam", NilPkg, <<>>, <<>>, <<>>, 0, 8),
      Sub("Interface", <<>>),
      Sub("Basic", <<>>),
      ObjectNode("Var", 11),
      Node("Named", JsonPkg, <<>>, <<>>, <<>>, 9, 0)>>

\* type Ordered[U any] interface { Less(U) bool }   (package json)
\* func Sort[T json.Ordered[T]](xs []T) T
SortGraph ==
    <<Node("Signature", NilPkg, <<2, 5>>, <<4>>, <<>>, 0, 0),
      ObjectNode("Var", 3),
      Sub("Slice", <<4>>),
      Node("TypeParam", NilPkg, <<>>, <<>>, <<>>, 0, 6),
      ObjectNode("Var", 4),
      Node("Named", JsonPkg, <<>>, <<7>>, <<4>>, 9, 0),
      Node("TypeParam", NilPkg, <<>>, <<>>, <<>>, 0, 8),
      Sub("Interface", <<>>),
      Sub("Interface", <<10>>),
      Node("Func", JsonPkg, <<11>>, <<>>, <<>>, 0, 0),
      Sub("Signature", <<12>>),
      Node("Var", JsonPkg, <<7>>, <<>>, <<>>, 0, 0)>>

\* type Iter interface { Next() Iter; Val() json.Value }
\* var N interface { Get() Iter; Iter }
\* (the methods of an interface are those of its embedded interfaces too)
IterGraph ==
    <<Sub("Interface", <<2, 7, 9, 5>>),
      ObjectNode("Func", 3),
      Sub("Signature", <<4>>),
      ObjectNode("Var", 5),
      Node("Named", SrcPkg, <<>>, <<>>, <<>>, 6, 0),
      Sub("Interface", <<7, 9>>),
      ObjectNode("Func", 8),
      Sub("Signature", <<4>>),
      ObjectNode("Func", 10),
      Sub("Signature", <<11>>),
      ObjectNode("Var", 12),
      Node("Named", Json2Pkg, <<>>, <<>>, <<>>, 13, 0),
      Sub("Basic", <<>>)>>

\* type Tree struct { kids map[string]*Tree; v json.Value }
\* var M map[Tree][]*Tree
TreeGraph ==
    <<Sub("Map", <<2, 3>>),
      Node("Named", SrcPkg, <<>>, <<>>, <<>>, 5, 0),
      Sub("Slice", <<4>>),
      Sub("Pointer", <<2>>),
      Sub("Struct", <<6, 9>>),
      ObjectNode("Var", 7),
      Sub("Map", <<8, 4>>),
      Sub("Basic", <<>>),
      ObjectNode("Var", 10),
      Node("Named", JsonPkg, <<>>, <<>>, <<>>, 8, 0)>>

Graphs == {ListGraph, SortGraph, IterGraph, TreeGraph}

\* the constraints of the type parameters tps of graph g
constraints(g, tps) == [i \in DOMAIN tps |-> g[tps[i]].constraint]

\* a plausible slip: the underlying type of a named type is walked as well
calleesWithUnderlying(g, n) ==
    (IF g[n].kind = "Named" THEN <<g[n].under>> ELSE g[n].sub)
    \o (IF g[n].kind \in {"Named", "Signature"}
        THEN constraints(g, g[n].tparams) ELSE <<>>)
    \o (IF g[n].kind = "Named" THEN g[n].targs ELSE <<>>)

\* a plausible slip: a type parameter met as a type has its constraint walked
calleesWithConstraint(g, n) ==
    (CASE g[n].kind = "Named" -> <<>>
       [] g[n].kind = "TypeParam" -> <<g[n].constraint>>
       [] OTHER -> g[n].sub)
    \o (IF g[n].kind \in {"Named", "Signature"}
        THEN constraints(g, g[n].tparams) ELSE <<>>)
    \o (IF g[n].kind = "Named" THEN g[n].targs ELSE <<>>)

\* the calls importType (importObject for a variable or a function) makes
\* on node n, in their order: those of the type switch, in which a named
\* type has none, then the constraints of TypeParams(), then TypeArgs()
callees(g, n) ==
    (IF g[n].kind = "Named" THEN <<>> ELSE g[n].sub)
    \o (IF g[n].kind \in {"Named", "Signature"}
        THEN constraints(g, g[n].tparams) ELSE <<>>)
    \o (IF g[n].kind = "Named" THEN g[n].targs ELSE <<>>)

\* the AddImport of one call: the package of a named type, of a variable or
\* of a function
imported(r, node) ==
    IF node.kind \in {"Named", "Var", "Func"} THEN addImport(r, node.pkg) ELSE r

\* a constructor is about to be given a declaration whose type is a node of
\* a graph
GraphInit ==
    /\ imp = NewImporter
    /\ ret = NoCall
    /\ hist = NoHist
    /\ mu = Unlocked
    /\ pc = [g \in Procs |-> "idle"]
    /\ call = [g \in Procs |-> Idle]
    /\ constants = <<>>
    /\ variables = <<>>
    /\ functions = <<>>
    /\ types = <<>>
    /\ names = EmptyMap
    /\ onDuplicate = DefaultOnDuplicate
    /\ conf = NilConfig
    /\ decl = NoDecl
    /\ tsig = NewSignature(SignatureOf(<<>>, <<>>))
    /\ amu = Unlocked
    /\ fs = NoFile
    /\ walk \in UNION {{[pc |-> "new", g |-> g, root |-> n, stack |-> <<>>,
                          visited |-> {}] : n \in DOMAIN g} : g \in Graphs}

graphFrame ==
    <<ret, hist, lockVars, constants, variables, functions, types, names,
      onDuplicate, conf, decl, tsig, amu, fs>>

\* newObjectResolver: importType is called on the type of the declaration
GraphCall ==
    /\ walk.pc = "new"
    /\ walk' = [walk EXCEPT !.pc = "walk", !.stack = <<walk.root>>]
    /\ UNCHANGED <<imp, graphFrame>>

\* one call of importType: its AddImport, and the calls it makes are the
\* next to run, before what the callers have left to do
GraphStep ==
    /\ walk.pc = "walk"
    /\ walk.stack # <<>>
    /\ Len(walk.stack) <= MaxStack
    /\ imp' = imported(imp, walk.g[Head(walk.stack)])
    /\ walk' = [walk EXCEPT
                    !.stack = callees(walk.g, Head(walk.stack)) \o Tail(@),
                    !.visited = @ \cup {Head(walk.stack)}]
    /\ UNCHANGED graphFrame

\* the first call of importType returns, and the constructor with it
GraphReturn ==
    /\ walk.pc = "walk"
    /\ walk.stack = <<>>
    /\ walk' = [walk EXCEPT !.pc = "done"]
    /\ UNCHANGED <<imp, graphFrame>>

GraphNext ==
    \/ GraphCall
    \/ GraphStep
    \/ GraphReturn

\* a call that can run does run
SpecGraph == GraphInit /\ [][GraphNext]_vars /\ WF_vars(GraphNext)

-----------------------------------------------------------------------------
\* Properties of the session under concurrent calls

\* goroutine g is inside Generate, between its RLock and its RUnlock
Rendering(g) == pc[g] # "idle" /\ call[g].op = "Generate"

\* the four sequences
Sequences == <<constants, variables, functions, types>>

\* the alias assignment of the registered packages of r
AssignmentOf(r) ==
    aliasPaths(r.imports,
               CHOOSE ps \in sortedPaths([r EXCEPT !.toAlias = TRUE]) : TRUE,
               1, EmptyMap)

\* a step taken while a goroutine is rendering leaves the sequences, the
\* registered paths and the alias assignment as they are
FrozenStep ==
    (\E g \in Procs : Rendering(g)) =>
        /\ Sequences' = Sequences
        /\ DOMAIN imp'.imports = DOMAIN imp.imports
        /\ AssignmentOf(imp') = AssignmentOf(imp)

\* every symbol a rendering has written is qualified with the alias the
\* import block of the same rendering gives to its package
OneAssignment ==
    \A g \in Procs :
        Rendering(g) =>
            \A q \in call[g].quals : q[2] = MapGet(call[g].ai, q[1])

\* C21: from the RLock of Generate to its RUnlock no step of another call
\* (AddConstants, AddVariables, AddFunctions, AddTypes, AddImport) changes
\* the four sequences, the registered paths or the alias assignment, and all
\* symbols of the rendered file are qualified with the alias assignment its
\* import block was written from.
C21_FrozenWhileRendering == [][FrozenStep]_vars /\ []OneAssignment

\* the part of C21 that holds: the sequences and the index do not change
\* while a goroutine renders
SequencesFrozen ==
    [][(\E g \in Procs : Rendering(g)) =>
        Sequences' = Sequences /\ names' = names]_vars

\* the kinds in whose sequence the name n has a symbol
KindsOf(n) == {id \in ObjectIds : Len(Symbols(Aliaser, id, n)) > 0}

\* the index and the sequences agree: an indexed name has one symbol, in
\* the sequence of the indexed kind and in no other, and every symbol of a
\* sequence is indexed
IndexAgrees ==
    /\ \A n \in DOMAIN names :
            KindsOf(n) = {names[n]} /\ Len(Symbols(Aliaser, names[n], n)) = 1
    /\ \A id \in ObjectIds : \A i \in DOMAIN SeqOf(Aliaser, id) :
            SeqOf(Aliaser, id)[i].name \in DOMAIN names

-----------------------------------------------------------------------------
\* Properties of GenerateFile

\* GenerateFile has returned an error after OpenFileWithReset gave it the
\* open file
FailedAfterOpen ==
    fs.pc = "done" /\ fs.ret.open.f # "nil" /\ fs.ret.err # NoError

\* the file is as it was before the call: absent if it was absent, and of
\* the same content otherwise
AsBefore ==
    IF fs.before.exists THEN fs.ret.file = fs.before ELSE ~fs.ret.file.exists

\* OpenFileWithReset returns a nil file and a nil reset function with every
\* error
NilOnError ==
    (fs.pc = "done" /\ fs.ret.open.err \notin {NoError, "not called"}) =>
        fs.ret.open.f = "nil" /\ fs.ret.open.reset = "nil"

-----------------------------------------------------------------------------
\* Properties of the type walker on type graphs

\* the types and objects node n refers to, its underlying type left out
Refs(g, n) ==
    {g[n].sub[i] : i \in DOMAIN g[n].sub}
    \cup {g[g[n].tparams[i]].constraint : i \in DOMAIN g[n].tparams}
    \cup {g[n].targs[i] : i \in DOMAIN g[n].targs}

RECURSIVE Reach(_, _)
\* the nodes reached from the nodes S without entering an underlying type
Reach(g, S) ==
    IF UNION {Refs(g, n) : n \in S} \subseteq S
    THEN S
    ELSE Reach(g, S \cup UNION {Refs(g, n) : n \in S})

\* the packages of the named types, variables and functions among nodes S
Owners(g, S) == {g[n].pkg : n \in {m \in S : g[m].kind \in {"Named", "Var", "Func"}}}

\* C25: the owning package of every named type the walker has been called
\* on is registered, and the walker is never called on a type that is only
\* reached through the underlying type of a named type, so that a package
\* met only there is not registered.
C25_NamedNotEntered ==
    walk.pc \in {"walk", "done"} =>
        /\ \A n \in walk.visited :
              walk.g[n].kind = "Named" => IsRegistered(walk.g[n].pkg)
        /\ walk.visited \subseteq Reach(walk.g, {walk.root})
        /\ \A path \in DOMAIN imp.imports :
              imp.imports[path] \in Owners(walk.g, Reach(walk.g, {walk.root}))

\* the walk from List[List[int]] is over: package pkg of List is registered,
\* the struct under List was not walked and json, met in it, is not registered
C25_Witness ==
    /\ walk.pc = "done"
    /\ walk.g = ListGraph
    /\ walk.root = 1
    /\ IsRegistered(SrcPkg)
    /\ walk.g[1].under \notin walk.visited
    /\ ~IsRegistered(JsonPkg)

\* C26: on every type graph the walker returns.
C26_WalkerReturns == <>(walk.pc = "done")

\* the walk from List[List[int]] is over: List was reached again through its
\* own type argument, and the type graph has a cycle through List
C26_Witness ==
    /\ walk.pc = "done"
    /\ walk.g = ListGraph
    /\ walk.root = 1
    /\ {1, 2} \subseteq walk.visited
    /\ walk.g[1].kind = "Named" /\ walk.g[2].kind = "Named"
    /\ 6 \in Reach(walk.g, {walk.g[6].under})

-----------------------------------------------------------------------------
\* Properties of the order of the sequences

RECURSIVE Within(_, _)
\* the sequence s is t with some of its elements left out
Within(s, t) ==
    IF s = <<>> THEN TRUE
    ELSE IF t = <<>> THEN FALSE
    ELSE IF Head(s) = Head(t) THEN Within(Tail(s), Tail(t))
    ELSE Within(s, Tail(t))

\* the sequence new is: symbols of old in their order, then k objects of the
\* arguments os in their order; a symbol of old that is still there has none
\* of the names of os, unless the policy is to keep it (Skip) or the call
\* panicked
KeptThenAdded(old, new, os, k) ==
    /\ k <= Len(new)
    /\ Within(SubSeq(new, 1, Len(new) - k), old)
    /\ Within(SubSeq(new, Len(new) - k + 1, Len(new)), os)
    /\ \A i \in 1..(Len(new) - k), j \in DOMAIN os : new[i].name # os[j].name
          \/ (new[i].name \in DOMAIN names /\ onDuplicate = OnDuplicateSkip)
          \/ ret'.panicked

-----------------------------------------------------------------------------
\* Properties of the registry under the Skip policy

\* C29: under the Skip policy a call whose objects all have names that are
\* in the table leaves the registry as it is: no package is registered and
\* a cached alias assignment stays valid.
C29_SkipLeavesRegistry ==
    [][(/\ onDuplicate = OnDuplicateSkip
        /\ ret'.op \in AddOps
        /\ \A i \in DOMAIN ret'.arg : ret'.arg[i].name \in DOMAIN names)
       => imp' = imp]_vars

\* a variable A whose type mentions package json was added to a table that
\* had a constant A: json is not registered and the cached assignment is valid
C29_Witness ==
    /\ onDuplicate = OnDuplicateSkip
    /\ ret.op = "AddVariables"
    /\ ret.arg[1].name = "A"
    /\ JsonPkg \in NamedPkgs(ret.arg[1].typ)
    /\ "A" \in DOMAIN names /\ names["A"] = constantId
    /\ variables = <<>>
    /\ ~IsRegistered(JsonPkg)
    /\ ~imp.toAlias
    /\ imp.aliasedImports # EmptyMap

-----------------------------------------------------------------------------
\* Progress of the calls on a session

\* C28: every call on the session returns: a goroutine that is inside an add
\* method, an accessor or Generate is eventually outside of it.
C28_EveryCallReturns ==
    \A g \in Procs : (pc[g] # "idle") ~> (pc[g] = "idle")

\* a goroutine inside Generate holds the read lock and is about to call an
\* accessor from the template, while a goroutine inside an add method waits
\* for the readers to leave
WriterWaitsOnRenderer ==
    \E g, h \in Procs :
        /\ pc[g] \in {"with", "range"}
        /\ call[g].k <= typeId
        /\ g \in amu.readers
        /\ pc[h] = "drain"
        /\ amu.w = h

\* from such a state no goroutine of the two takes a step
NoStepWhenWaiting ==
    [][WriterWaitsOnRenderer =>
        \A g \in Procs : pc[g] \in {"with", "range", "drain"} => pc'[g] = pc[g]]_vars

-----------------------------------------------------------------------------
\* Properties of the names of the wrapper's variables

\* the variables of the tuple t have pairwise distinct names
DistinctNames(t) ==
    \A i, j \in DOMAIN t : i # j => t[i].name # t[j].name

\* C30: the tuple NewAliasedTuple returns for parameters (results) of
\* pairwise distinct names has pairwise distinct names, for every alias list.
C30_NamesDistinct ==
    tsig.done =>
        /\ DistinctNames(tsig.Signature.params) =>
               DistinctNames(tsig.wrapper.params)
        /\ DistinctNames(tsig.Signature.results) =>
               DistinctNames(tsig.wrapper.results)
====
